---- MODULE Spec2Model ----
(***************************************************************************)
(* GameAlchemy mini-game engines as state machines.                        *)
(*                                                                         *)
(*   SpecMS : scenes/minesweeper.py  MinesweeperScene                      *)
(*   SpecBL : scenes/bricklayer.py   BrickLayerScene                       *)
(*   SpecPL : scenes/pipeline.py     PipelineScene                         *)
(*                                                                         *)
(* Each specification drives one scene; the variables of the other scenes  *)
(* are absent (main.py keeps one scene current at a time).                 *)
(***************************************************************************)
EXTENDS Integers, Sequences, FiniteSets, TLC

VARIABLES
    ms_rows,         \* MinesweeperScene.rows
    ms_cols,         \* MinesweeperScene.cols
    ms_mine_count,   \* MinesweeperScene.mine_count
    ms_cells,        \* MinesweeperScene.cells[r][c] = {mine, adj, rev, flag}
    ms_first_click,  \* MinesweeperScene.first_click
    ms_game_over,    \* MinesweeperScene.game_over
    ms_win,          \* MinesweeperScene.win
    ms_exploded,     \* MinesweeperScene.exploded : None or (r,c)
    bl_cells,        \* BrickLayerScene.cells : list of rows, each a list of type or None
    bl_piece,        \* BrickLayerScene.piece = {type, o, row, col}
    bl_game_over,    \* BrickLayerScene.game_over
    bl_lines,        \* BrickLayerScene.lines
    bl_score,        \* BrickLayerScene.score
    bl_last_tap,     \* BrickLayerScene.last_tap, in milliseconds
    bl_nlocks,       \* number of _lock calls since the last _reset (bounds a game)
    bl_drops,        \* number of hard drops since the last _reset (history)
    pl_rows,         \* PipelineScene.rows
    pl_cols,         \* PipelineScene.cols
    pl_pair_n,       \* PipelineScene.pair_n
    pl_min_seg,      \* PipelineScene.min_seg
    pl_pos,          \* "generate": in the loop of _generate_board; "play": constructed
    pl_lengths,      \* lengths of the latest generation attempt
    pl_attempts,     \* number of generation attempts that failed (history)
    pl_solution,     \* PipelineScene.solution : colour -> segment
    pl_nodes,        \* PipelineScene.nodes : list of (r, c, colour)
    pl_grid,         \* PipelineScene.board.grid : cell -> {type, color}
    pl_paths_drawn,  \* PipelineScene.paths_drawn : colour -> committed path
    pl_completed,    \* PipelineScene.completed : colour -> bool
    pl_active_col,   \* PipelineScene.active_col : colour, or -1 for None
    pl_active_path,  \* PipelineScene.active_path
    pl_dragging,     \* PipelineScene.dragging
    pl_win,          \* PipelineScene.win
    sn_apple_ratio,  \* SnakeScene.apple_ratio, in percent
    sn_snake,        \* SnakeScene.snake : list of (r, c), tail first, head last
    sn_direction,    \* SnakeScene.direction
    sn_next_direction, \* SnakeScene.next_direction
    sn_poison_penalty, \* SnakeScene.poison_penalty
    sn_timer,        \* SnakeScene.timer, in time units
    sn_game_over,    \* SnakeScene.game_over
    sn_foods,        \* SnakeScene.foods : list of {pos, type, despawn_at} (+ history)
    sn_spawn_queue,  \* SnakeScene.spawn_queue : list of {due_at} (+ history)
    sn_now,          \* time.time(), counted from the latest _reset
    sn_played,       \* sum of the dt given to update since the latest _reset (history)
    sn_spawned,      \* number of items spawned since the last _reset (history)
    sn_nsteps,       \* number of _step calls that moved since the last _reset (history)
    sn_expired,      \* items the latest update removed as expired (history)
    sn_fired,        \* queue entries the latest update found due (history)
    wi_hard_mode,    \* WordItScene.hard_mode
    wi_answer,       \* WordItScene.answer, a sequence of letters
    wi_guesses,      \* WordItScene.guesses
    wi_results,      \* WordItScene.results
    wi_current,      \* WordItScene.current
    wi_game_over,    \* WordItScene.game_over
    wi_win,          \* WordItScene.win
    wi_notice,       \* WordItScene.notice
    hm_word,         \* HangmanScene.word, a sequence of characters
    hm_revealed,     \* HangmanScene.revealed
    hm_guessed,      \* HangmanScene.guessed
    hm_mistakes,     \* HangmanScene.mistakes
    hm_game_over,    \* HangmanScene.game_over
    hm_win,          \* HangmanScene.win
    current,         \* main: "menu", or the name of the game whose scene is current
    main_escaped,    \* the game whose scene main has dispatched an Escape
                     \* key-down to, "" before (history)
    main_launched    \* number of scenes launch_game has built (history)

ms_cfg == <<ms_rows, ms_cols, ms_mine_count>>

ms_vars == <<ms_cfg, ms_cells, ms_first_click, ms_game_over, ms_win, ms_exploded>>

bl_vars == <<bl_cells, bl_piece, bl_game_over, bl_lines, bl_score,
             bl_last_tap, bl_nlocks, bl_drops>>

pl_cfg == <<pl_rows, pl_cols, pl_pair_n, pl_min_seg>>

pl_gen == <<pl_pos, pl_lengths, pl_attempts, pl_solution, pl_nodes>>

pl_drag == <<pl_paths_drawn, pl_completed, pl_active_col, pl_active_path,
             pl_dragging, pl_win>>

pl_vars == <<pl_cfg, pl_gen, pl_grid, pl_drag>>

sn_game == <<sn_snake, sn_direction, sn_next_direction, sn_poison_penalty,
             sn_game_over, sn_foods, sn_spawn_queue, sn_spawned, sn_nsteps>>

sn_vars == <<sn_apple_ratio, sn_game, sn_timer, sn_now, sn_played,
             sn_expired, sn_fired>>

wi_vars == <<wi_hard_mode, wi_answer, wi_guesses, wi_results, wi_current,
             wi_game_over, wi_win, wi_notice>>

hm_vars == <<hm_word, hm_revealed, hm_guessed, hm_mistakes, hm_game_over, hm_win>>

main_vars == <<current, main_escaped, main_launched>>

vars == <<ms_vars, bl_vars, pl_vars, sn_vars, wi_vars, hm_vars, main_vars>>

\* The fields of the scenes that are not current.
ms_off == <<bl_vars, pl_vars, sn_vars, wi_vars, hm_vars, main_vars>>

bl_off == <<ms_vars, pl_vars, sn_vars, wi_vars, hm_vars, main_vars>>

pl_off == <<ms_vars, bl_vars, sn_vars, wi_vars, hm_vars, main_vars>>

sn_off == <<ms_vars, bl_vars, pl_vars, wi_vars, hm_vars, main_vars>>

wi_off == <<ms_vars, bl_vars, pl_vars, sn_vars, hm_vars, main_vars>>

hm_off == <<ms_vars, bl_vars, pl_vars, sn_vars, wi_vars, main_vars>>

None == "None"

(***************************************************************************)
(* Minesweeper                                                             *)
(***************************************************************************)

\* The launch parameters (rows, cols, mine_count) MinesweeperScene.__init__ is
\* given: small boards on which, as with every preset of DIFFICULTIES, the
\* cells outside any 3x3 block are at least mine_count many.
MsConfigs ==
    { [rows |-> 2, cols |-> 4, mine_count |-> 2],
      [rows |-> 1, cols |-> 5, mine_count |-> 1] }

\* At most this many cells carry a flag at a time.
MsMaxFlags == 2

MsCellSet == (0 .. ms_rows - 1) \X (0 .. ms_cols - 1)

MsInBoard(p) == /\ 0 <= p[1] /\ p[1] < ms_rows
                /\ 0 <= p[2] /\ p[2] < ms_cols

\* for dr in (-1,0,1) for dc in (-1,0,1)
Offsets9 == << <<-1, -1>>, <<-1, 0>>, <<-1, 1>>,
               << 0, -1>>, << 0, 0>>, << 0, 1>>,
               << 1, -1>>, << 1, 0>>, << 1, 1>> >>

\* The in-bounds cells among (r+dr, c+dc), in the order the loops visit them.
MsNeighSeq(p) ==
    SelectSeq([i \in 1 .. 9 |-> <<p[1] + Offsets9[i][1], p[2] + Offsets9[i][2]>>],
              MsInBoard)

MsNeighSet(p) == {MsNeighSeq(p)[i] : i \in 1 .. Len(MsNeighSeq(p))}

MsFreshCell == [mine |-> FALSE, adj |-> 0, rev |-> FALSE, flag |-> FALSE]

\* MsPool with a fault: only the clicked cell is kept free of mines.
MsPoolOnlyClicked(sr, sc) == MsCellSet \ {<<sr, sc>>}

\* _place_mines: the cells random.sample may draw from.
MsPool(sr, sc) == MsCellSet \ MsNeighSet(<<sr, sc>>)

\* MsWithAdj with a fault: the diagonal neighbours are not counted.
MsWithAdjOrthogonal(cs) ==
    [p \in MsCellSet |->
        IF cs[p].mine THEN cs[p]
        ELSE [cs[p] EXCEPT !.adj = Cardinality({q \in MsNeighSet(p) :
                                  cs[q].mine /\ (q[1] = p[1] \/ q[2] = p[2])})]]

\* _place_mines, lines 72-78: adjacency of every non-mine cell.
MsWithAdj(cs) ==
    [p \in MsCellSet |->
        IF cs[p].mine THEN cs[p]
        ELSE [cs[p] EXCEPT !.adj = Cardinality({q \in MsNeighSet(p) : cs[q].mine})]]

\* _place_mines with the sample M drawn by random.sample(pool, mine_count).
MsPlaceMines(cs, M) ==
    MsWithAdj([p \in MsCellSet |-> IF p \in M THEN [cs[p] EXCEPT !.mine = TRUE] ELSE cs[p]])

\* MsFlood with a fault: a flagged cell is not skipped.
RECURSIVE MsFloodOverFlags(_, _)
MsFloodOverFlags(stack, cs) ==
    IF stack = <<>> THEN cs
    ELSE LET p    == stack[Len(stack)]
             rest == SubSeq(stack, 1, Len(stack) - 1)
         IN  IF cs[p].rev THEN MsFloodOverFlags(rest, cs)
             ELSE IF cs[p].adj = 0
                  THEN MsFloodOverFlags(rest \o MsNeighSeq(p), [cs EXCEPT ![p].rev = TRUE])
                  ELSE MsFloodOverFlags(rest, [cs EXCEPT ![p].rev = TRUE])

\* _flood: the explicit stack of the code, popped from its end.
RECURSIVE MsFlood(_, _)
MsFlood(stack, cs) ==
    IF stack = <<>> THEN cs
    ELSE LET p    == stack[Len(stack)]
             rest == SubSeq(stack, 1, Len(stack) - 1)
         IN  IF cs[p].rev \/ cs[p].flag THEN MsFlood(rest, cs)
             ELSE IF cs[p].adj = 0
                  THEN MsFlood(rest \o MsNeighSeq(p), [cs EXCEPT ![p].rev = TRUE])
                  ELSE MsFlood(rest, [cs EXCEPT ![p].rev = TRUE])

MsRevCount(cs) == Cardinality({p \in MsCellSet : cs[p].rev})

MsFlagCount(cs) == Cardinality({p \in MsCellSet : cs[p].flag})

\* MsCheckWin with a fault: the mines are not taken off the cell count.
MsCheckWinAllCells(cs) == MsRevCount(cs) = ms_rows * ms_cols

\* _check_win
MsCheckWin(cs) == MsRevCount(cs) = ms_rows * ms_cols - ms_mine_count

\* MsResetBoard with a fault: the cells are covered again, the mines kept.
MsResetBoardKeepMines ==
    /\ ms_first_click' = TRUE
    /\ ms_game_over' = FALSE
    /\ ms_win' = FALSE
    /\ ms_exploded' = None
    /\ ms_cells' = [p \in MsCellSet |-> [ms_cells[p] EXCEPT !.rev = FALSE, !.flag = FALSE]]
    /\ UNCHANGED ms_cfg

\* _reset_board
MsResetBoard ==
    /\ ms_first_click' = TRUE
    /\ ms_game_over' = FALSE
    /\ ms_win' = FALSE
    /\ ms_exploded' = None
    /\ ms_cells' = [p \in MsCellSet |-> MsFreshCell]
    /\ UNCHANGED ms_cfg

MsInit ==
    /\ \E cfg \in MsConfigs :
          /\ ms_rows = cfg.rows
          /\ ms_cols = cfg.cols
          /\ ms_mine_count = cfg.mine_count
    /\ ms_first_click = TRUE
    /\ ms_game_over = FALSE
    /\ ms_win = FALSE
    /\ ms_exploded = None
    /\ ms_cells = [p \in MsCellSet |-> MsFreshCell]

\* MsReveal with a fault: a click on a mine uncovers every mine.
MsRevealAllMines(p, cs) ==
    IF cs[p].mine
    THEN /\ ms_cells' = [q \in MsCellSet |->
                            IF cs[q].mine THEN [cs[q] EXCEPT !.rev = TRUE] ELSE cs[q]]
         /\ ms_exploded' = p
         /\ ms_game_over' = TRUE
         /\ ms_win' = FALSE
         /\ UNCHANGED ms_cfg
    ELSE LET fl == MsFlood(<<p>>, cs)
         IN  /\ ms_cells' = fl
             /\ ms_exploded' = ms_exploded
             /\ ms_win' = (IF MsCheckWin(fl) THEN TRUE ELSE ms_win)
             /\ ms_game_over' = (IF MsCheckWin(fl) THEN TRUE ELSE ms_game_over)
             /\ UNCHANGED ms_cfg

\* handle_event, lines 135-140, on the cells cs present after mine placement.
MsReveal(p, cs) ==
    IF cs[p].mine
    THEN /\ ms_cells' = [cs EXCEPT ![p].rev = TRUE]
         /\ ms_exploded' = p
         /\ ms_game_over' = TRUE
         /\ ms_win' = FALSE
         /\ UNCHANGED ms_cfg
    ELSE LET fl == MsFlood(<<p>>, cs)
         IN  /\ ms_cells' = fl
             /\ ms_exploded' = ms_exploded
             /\ ms_win' = (IF MsCheckWin(fl) THEN TRUE ELSE ms_win)
             /\ ms_game_over' = (IF MsCheckWin(fl) THEN TRUE ELSE ms_game_over)
             /\ UNCHANGED ms_cfg

\* handle_event for MOUSEBUTTONDOWN, button 1, on board cell p.
MsLeftClick(p) ==
    IF ms_game_over \/ ms_cells[p].flag THEN UNCHANGED ms_vars
    ELSE IF ms_first_click
         THEN /\ ms_first_click' = FALSE
              /\ \E M \in SUBSET MsPool(p[1], p[2]) :
                    /\ Cardinality(M) = ms_mine_count
                    /\ MsReveal(p, MsPlaceMines(ms_cells, M))
         ELSE /\ ms_first_click' = ms_first_click
              /\ MsReveal(p, ms_cells)

\* MsRightClick with a fault: a revealed cell can be flagged too.
MsRightClickRevealed(p) ==
    IF ms_game_over THEN UNCHANGED ms_vars
    ELSE /\ ms_cells[p].flag \/ MsFlagCount(ms_cells) < MsMaxFlags
         /\ ms_cells' = [ms_cells EXCEPT ![p].flag = ~ms_cells[p].flag]
         /\ UNCHANGED <<ms_cfg, ms_first_click, ms_game_over, ms_win, ms_exploded>>

\* MsRightClick with a fault: flags are toggled in a finished game too.
MsRightClickAfterEnd(p) ==
    IF ms_cells[p].rev THEN UNCHANGED ms_vars
    ELSE /\ ms_cells[p].flag \/ MsFlagCount(ms_cells) < MsMaxFlags
         /\ ms_cells' = [ms_cells EXCEPT ![p].flag = ~ms_cells[p].flag]
         /\ UNCHANGED <<ms_cfg, ms_first_click, ms_game_over, ms_win, ms_exploded>>

\* handle_event for MOUSEBUTTONDOWN, button 3, on board cell p.
MsRightClick(p) ==
    IF ms_game_over \/ ms_cells[p].rev THEN UNCHANGED ms_vars
    ELSE /\ ms_cells[p].flag \/ MsFlagCount(ms_cells) < MsMaxFlags
         /\ ms_cells' = [ms_cells EXCEPT ![p].flag = ~ms_cells[p].flag]
         /\ UNCHANGED <<ms_cfg, ms_first_click, ms_game_over, ms_win, ms_exploded>>

\* handle_event for a left click on the Restart button.
MsRestartClick ==
    IF ms_game_over THEN MsResetBoard ELSE UNCHANGED ms_vars

\* handle_event for every other event (other keys and buttons, clicks off
\* the board, the Back button, Escape): no field is written.
MsOtherEvent == UNCHANGED ms_vars


(***************************************************************************)
(* Minesweeper: properties                                                 *)
(***************************************************************************)

\* q is one of the up to 8 cells around p.
MsAdjacent(p, q) ==
    /\ p # q
    /\ p[1] - q[1] \in {-1, 0, 1}
    /\ p[2] - q[2] \in {-1, 0, 1}

MsMines(cs) == {p \in MsCellSet : cs[p].mine}

MsRevealed(cs) == {p \in MsCellSet : cs[p].rev}

\* The step is a left click on board cell p that passes the guards of
\* handle_event: the game is running and p carries no flag.
MsRevealClick(p) == ~ms_game_over /\ ~ms_cells[p].flag /\ MsLeftClick(p)

\* C1: the first reveal click of a game, on an unflagged cell p, leaves p and
\* every cell around it without a mine; p is revealed and the game is not lost.
C1_SafeOpening ==
    [][\A p \in MsCellSet :
          (ms_first_click /\ MsRevealClick(p)) =>
              /\ \A q \in MsCellSet : (q = p \/ MsAdjacent(p, q)) => ~ms_cells'[q].mine
              /\ ms_cells'[p].rev
              /\ ms_exploded' = None
              /\ ~(ms_game_over' /\ ~ms_win')]_vars

C1_Witness ==
    /\ ~ms_first_click
    /\ Cardinality(MsMines(ms_cells)) = ms_mine_count
    /\ ms_mine_count = 2
    /\ \E p \in MsCellSet : ms_cells[p].rev /\ ms_cells[p].adj = 0
    /\ ~ms_game_over

\* C2: before the first reveal of a game no cell is a mine, whatever was
\* flagged; after it exactly mine_count cells are mines, and the mined cells
\* stay the same from step to step until Restart starts the next game.
C2_MinesPlacedOnce ==
    /\ [](ms_first_click => MsMines(ms_cells) = {})
    /\ [](~ms_first_click => Cardinality(MsMines(ms_cells)) = ms_mine_count)
    /\ [][(~ms_first_click /\ ~ms_first_click') =>
             MsMines(ms_cells') = MsMines(ms_cells)]_vars

\* Mines are placed, one of them under a flag, and play goes on.
C2_Witness ==
    /\ ~ms_first_click
    /\ ~ms_game_over
    /\ ms_mine_count = 2
    /\ \E p \in MsMines(ms_cells) : ms_cells[p].flag
    /\ Cardinality(MsRevealed(ms_cells)) >= 2

\* The adjacency count the rules give cell p under the mines of cs.
MsMinedAround(p, cs) == Cardinality({q \in MsCellSet : MsAdjacent(p, q) /\ cs[q].mine})

\* C3: in every state each non-mine cell's adj is the number of mines among
\* the cells around it (and a mine's adj is 0), and within a game no step
\* after the placement changes any adj.
C3_AdjacencyCounts ==
    /\ [](\A p \in MsCellSet :
             ms_cells[p].adj = IF ms_cells[p].mine THEN 0 ELSE MsMinedAround(p, ms_cells))
    /\ [][(~ms_first_click /\ ~ms_first_click') =>
             \A p \in MsCellSet : ms_cells'[p].adj = ms_cells[p].adj]_vars

C3_Witness ==
    /\ ~ms_first_click
    /\ \E p \in MsCellSet : ms_cells[p].adj = 2 /\ ms_cells[p].rev
    /\ \E p \in MsCellSet : ms_cells[p].flag

\* The zero cells a flood from p passes through: p if its count is 0, and
\* every cell of Pass that is around a cell already passed through.
RECURSIVE MsZeroRegion(_, _)
MsZeroRegion(Z, Pass) ==
    LET more == {q \in Pass : \E z \in Z : MsAdjacent(z, q)}
    IN  IF more \subseteq Z THEN Z ELSE MsZeroRegion(Z \cup more, Pass)

\* The reference flood set of a click on p: p, the zero region and the
\* unflagged cells around it.  adj is read after the step (the first click
\* places the mines before it floods), flags before it.
MsFloodSet(p, Pass) ==
    LET Z == IF ms_cells'[p].adj = 0 THEN MsZeroRegion({p}, Pass) ELSE {}
    IN  {p} \cup Z \cup {q \in MsCellSet : ~ms_cells[q].flag /\ \E z \in Z : MsAdjacent(z, q)}

\* The zero cells the claim's flood expands: unflagged, count 0.
MsPassUnflagged ==
    {q \in MsCellSet : ~ms_cells[q].flag /\ ~ms_cells'[q].mine /\ ms_cells'[q].adj = 0}

\* The zero cells the flood of the code expands: also not yet revealed.
MsPassHidden == {q \in MsPassUnflagged : ~ms_cells[q].rev}

\* The step reveals, beyond what was revealed, exactly the cells of S.
MsRevealsExactly(S) == MsRevealed(ms_cells') = MsRevealed(ms_cells) \cup S

\* The step is a reveal of the unflagged, unrevealed non-mine cell p.
MsFloodClick(p) == MsRevealClick(p) /\ ~ms_cells[p].rev /\ ~ms_cells'[p].mine

\* C4 as stated: the reveal of p reveals the cells reached through unflagged
\* zero cells, revealed before or not.
C4_FloodThroughUnflagged ==
    [][\A p \in MsCellSet :
          MsFloodClick(p) => MsRevealsExactly(MsFloodSet(p, MsPassUnflagged))]_vars

\* C4 amended: a reveal of an unflagged, unrevealed non-mine cell p reveals
\* exactly p, the cells reached from it through unflagged zero cells that were
\* not revealed before, and the unflagged cells around those; no flagged cell
\* and no mine is among the cells it reveals.
C4_FloodThroughHidden ==
    [][\A p \in MsCellSet :
          MsFloodClick(p) =>
              /\ MsRevealsExactly(MsFloodSet(p, MsPassHidden))
              /\ \A q \in MsRevealed(ms_cells') \ MsRevealed(ms_cells) :
                    ~ms_cells[q].flag /\ ~ms_cells'[q].mine]_vars

\* A flood has run through a zero cell and stopped at a flagged cell.
C4_Witness ==
    /\ ~ms_game_over
    /\ \E p, q, f \in MsCellSet :
          /\ ms_cells[p].rev /\ ms_cells[p].adj = 0 /\ ~ms_cells[p].mine
          /\ MsAdjacent(p, q) /\ ms_cells[q].rev /\ ms_cells[q].adj > 0
          /\ MsAdjacent(p, f) /\ ms_cells[f].flag /\ ~ms_cells[f].rev

\* C5: no cell is both flagged and revealed.
C5_NoFlaggedRevealed ==
    \A p \in MsCellSet : ~(ms_cells[p].flag /\ ms_cells[p].rev)

\* A flagged cell next to a revealed zero cell: the flood has skipped it.
C5_Witness ==
    \E p, f \in MsCellSet :
        /\ ms_cells[p].rev /\ ms_cells[p].adj = 0 /\ ~ms_cells[p].mine
        /\ MsAdjacent(p, f) /\ ms_cells[f].flag

\* C6: win turns true exactly in a reveal of a non-mine cell after which
\* rows*cols - mine_count cells are revealed; whenever win is true the
\* revealed cells are exactly the non-mine cells.
C6_WinExactly ==
    /\ [](ms_win = TRUE =>
             /\ ms_game_over
             /\ \A p \in MsCellSet : ms_cells[p].rev <=> ~ms_cells[p].mine)
    /\ [][(~ms_win /\ ms_win') =>
             \E p \in MsCellSet :
                 /\ MsRevealClick(p) /\ ~ms_cells'[p].mine
                 /\ Cardinality(MsRevealed(ms_cells')) = ms_rows * ms_cols - ms_mine_count]_vars
    /\ [][\A p \in MsCellSet :
             ( /\ MsRevealClick(p) /\ ~ms_cells'[p].mine
               /\ Cardinality(MsRevealed(ms_cells')) = ms_rows * ms_cols - ms_mine_count )
             => ms_win']_vars

\* A win on the two-mine board with a flag still on a mine.
C6_Witness ==
    /\ ms_win = TRUE
    /\ ms_mine_count = 2
    /\ \E p \in MsCellSet : ms_cells[p].flag

\* C7: a left click on an unflagged mine ends the game as a loss and records
\* the cell; a mine is revealed only in a lost game, and then it is the
\* exploded cell and the only revealed mine.
C7_LossOnMine ==
    /\ [](\A p \in MsCellSet :
             (ms_cells[p].mine /\ ms_cells[p].rev) =>
                 ms_game_over /\ ~ms_win /\ ms_exploded = p)
    /\ [][\A p \in MsCellSet :
             (MsRevealClick(p) /\ ms_cells[p].mine) =>
                 /\ ms_game_over' /\ ~ms_win' /\ ms_exploded' = p
                 /\ ms_cells'[p].rev]_vars

C7_Witness ==
    /\ ms_game_over = TRUE /\ ~ms_win
    /\ ms_mine_count = 2
    /\ ms_exploded # None
    /\ ms_cells[ms_exploded].rev

\* C8: from a won or lost game every step other than the click on Restart
\* leaves the cells and the outcome as they are.
C8_FrozenAfterEnd ==
    [][ms_game_over =>
          \/ /\ ms_cells' = ms_cells
             /\ ms_win' = ms_win
             /\ ms_game_over' = ms_game_over
             /\ ms_exploded' = ms_exploded
          \/ MsRestartClick]_vars

\* A lost and a won game are both reached, with cells still unrevealed.
C8_Witness ==
    /\ ms_game_over = TRUE
    /\ ms_win
    /\ \E p \in MsCellSet : ~ms_cells[p].rev /\ ~ms_cells[p].flag


(***************************************************************************)
(* BrickLayer                                                              *)
(***************************************************************************)

\* ROWS, COLS of the module, scaled down from 20 x 10.
ROWS == 4
COLS == 4
\* HARD_DROP_WINDOW = 0.10 s, in milliseconds.
HARD_DROP_WINDOW == 100
\* A game is followed for at most this many locks.
BlMaxLocks == 2
\* One update call runs at most this many iterations of its gravity loop.
BlMaxFalls == 2
\* The values time.time() returns at a Down press, in milliseconds.
BlTimes == {1000, 1150}

BASE_SHAPES ==
    [I |-> << <<-1, 0>>, <<0, 0>>, <<1, 0>>, <<2, 0>> >>,
     J |-> << <<-1, -1>>, <<0, -1>>, <<1, -1>>, <<1, 0>> >>,
     L |-> << <<-1, 0>>, <<0, 0>>, <<1, 0>>, <<1, -1>> >>,
     O |-> << <<0, 0>>, <<0, 1>>, <<1, 0>>, <<1, 1>> >>,
     S |-> << <<0, 0>>, <<0, 1>>, <<1, -1>>, <<1, 0>> >>,
     T |-> << <<-1, 0>>, <<0, -1>>, <<0, 0>>, <<0, 1>> >>,
     Z |-> << <<0, -1>>, <<0, 0>>, <<1, 0>>, <<1, 1>> >>]

\* rot90: [(-c, r) for r,c in coords]
rot90(coords) == [i \in 1 .. Len(coords) |-> <<0 - coords[i][2], coords[i][1]>>]

\* build_rotations, lines 59-62: keep the first occurrence of each list.
RECURSIVE BlUnique(_, _)
BlUnique(rots, unique) ==
    IF rots = <<>> THEN unique
    ELSE IF \E i \in 1 .. Len(unique) : unique[i] = Head(rots)
         THEN BlUnique(Tail(rots), unique)
         ELSE BlUnique(Tail(rots), Append(unique, Head(rots)))

build_rotations(base) ==
    BlUnique(<<base, rot90(base), rot90(rot90(base)), rot90(rot90(rot90(base)))>>, <<>>)

\* {name: build_rotations(coords) for name,coords in BASE_SHAPES.items()}
ROTATIONS ==
    [I |-> build_rotations(BASE_SHAPES.I), J |-> build_rotations(BASE_SHAPES.J),
     L |-> build_rotations(BASE_SHAPES.L), O |-> build_rotations(BASE_SHAPES.O),
     S |-> build_rotations(BASE_SHAPES.S), T |-> build_rotations(BASE_SHAPES.T),
     Z |-> build_rotations(BASE_SHAPES.Z)]

\* list(ROTATIONS): the types random.choice draws from.
BlTypes == DOMAIN ROTATIONS

\* The offsets of piece p: ROTATIONS[p["type"]][p["o"]].
BlShape(p) == ROTATIONS[p.type][p.o + 1]

\* The board cells (r, c) piece p covers: p["row"]+dr, p["col"]+dc.
BlCellsOf(p) == {<<p.row + BlShape(p)[i][1], p.col + BlShape(p)[i][2]>> :
                    i \in 1 .. Len(BlShape(p))}

\* BlValid with a fault: settled cells are not looked at.
BlValidWallsOnly(p, cells) ==
    \A i \in 1 .. Len(BlShape(p)) :
        LET r == p.row + BlShape(p)[i][1]
            c == p.col + BlShape(p)[i][2]
        IN  ~(c < 0 \/ c >= COLS \/ r >= ROWS)

\* _valid
BlValid(p, cells) ==
    \A i \in 1 .. Len(BlShape(p)) :
        LET r == p.row + BlShape(p)[i][1]
            c == p.col + BlShape(p)[i][2]
        IN  /\ ~(c < 0 \/ c >= COLS \/ r >= ROWS)
            /\ ~(r >= 0 /\ cells[r + 1][c + 1] # None)

BlEmptyRow == [c \in 1 .. COLS |-> None]

BlEmptyBoard == [r \in 1 .. ROWS |-> BlEmptyRow]

\* The game fields the helpers read and write, as one record.
BlState == [cells |-> bl_cells, piece |-> bl_piece, game_over |-> bl_game_over,
            lines |-> bl_lines, score |-> bl_score, nlocks |-> bl_nlocks]

\* _spawn, with t the type random.choice returns.
BlSpawn(s, t) ==
    LET p == [type |-> t, o |-> 0, row |-> 0, col |-> COLS \div 2]
    IN  [s EXCEPT !.piece = p,
                  !.game_over = IF BlValid(p, s.cells) THEN s.game_over ELSE TRUE]

\* _clr_lines
BlFilled(cells) == {r \in 1 .. ROWS : \A c \in 1 .. COLS : cells[r][c] # None}

\* BlClrLines with a fault: the score grows by 100 for each row.
BlClrLinesLinear(s) ==
    LET filled == BlFilled(s.cells)
        k      == Cardinality(filled)
        kept   == SelectSeq([r \in 1 .. ROWS |-> r], LAMBDA r : r \notin filled)
    IN  IF filled = {} THEN s
        ELSE [s EXCEPT !.cells = [r \in 1 .. k |-> BlEmptyRow]
                                    \o [i \in 1 .. Len(kept) |-> s.cells[kept[i]]],
                       !.lines = s.lines + k,
                       !.score = s.score + k * 100]

\* BlClrLines with a fault: the new empty rows are put below the kept rows.
BlClrLinesPadBelow(s) ==
    LET filled == BlFilled(s.cells)
        k      == Cardinality(filled)
        kept   == SelectSeq([r \in 1 .. ROWS |-> r], LAMBDA r : r \notin filled)
    IN  IF filled = {} THEN s
        ELSE [s EXCEPT !.cells = [i \in 1 .. Len(kept) |-> s.cells[kept[i]]]
                                    \o [r \in 1 .. k |-> BlEmptyRow],
                       !.lines = s.lines + k,
                       !.score = s.score + (k * k) * 100]

BlClrLines(s) ==
    LET filled == BlFilled(s.cells)
        k      == Cardinality(filled)
        kept   == SelectSeq([r \in 1 .. ROWS |-> r], LAMBDA r : r \notin filled)
    IN  IF filled = {} THEN s
        ELSE [s EXCEPT !.cells = [r \in 1 .. k |-> BlEmptyRow]
                                    \o [i \in 1 .. Len(kept) |-> s.cells[kept[i]]],
                       !.lines = s.lines + k,
                       !.score = s.score + (k * k) * 100]

\* BlWrite with a fault: a cell in row 0 ends the game too.
RECURSIVE BlWriteFromRowOne(_, _)
BlWriteFromRowOne(s, i) ==
    IF i > Len(BlShape(s.piece)) THEN s
    ELSE LET r == s.piece.row + BlShape(s.piece)[i][1]
             c == s.piece.col + BlShape(s.piece)[i][2]
         IN  IF r > 0
             THEN BlWriteFromRowOne([s EXCEPT !.cells[r + 1][c + 1] = s.piece.type], i + 1)
             ELSE BlWriteFromRowOne([s EXCEPT !.game_over = TRUE], i + 1)

\* _lock, lines 134-139: the loop over the piece's cells, from the i-th on.
RECURSIVE BlWrite(_, _)
BlWrite(s, i) ==
    IF i > Len(BlShape(s.piece)) THEN s
    ELSE LET r == s.piece.row + BlShape(s.piece)[i][1]
             c == s.piece.col + BlShape(s.piece)[i][2]
         IN  IF r >= 0
             THEN BlWrite([s EXCEPT !.cells[r + 1][c + 1] = s.piece.type], i + 1)
             ELSE BlWrite([s EXCEPT !.game_over = TRUE], i + 1)

\* _lock, with t the type the _spawn at its end draws.
BlLock(s, t) ==
    LET w == BlWrite(s, 1)
    IN  BlSpawn(BlClrLines([w EXCEPT !.nlocks = w.nlocks + 1]), t)

\* BlDropRow with a fault: the piece falls one row at most.
BlDropRowOnce(p, cells) ==
    IF BlValid([p EXCEPT !.row = p.row + 1], cells)
    THEN [p EXCEPT !.row = p.row + 1]
    ELSE p

\* handle_event, lines 186-187: fall while the next row is valid.
RECURSIVE BlDropRow(_, _)
BlDropRow(p, cells) ==
    IF BlValid([p EXCEPT !.row = p.row + 1], cells)
    THEN BlDropRow([p EXCEPT !.row = p.row + 1], cells)
    ELSE p

\* update, lines 206-212: the states n iterations of the gravity loop can
\* end in, one for each outcome of the random.choice calls of its spawns.
RECURSIVE BlGravity(_, _)
BlGravity(s, n) ==
    IF n = 0 THEN {s}
    ELSE LET nxt == [s.piece EXCEPT !.row = s.piece.row + 1]
         IN  IF BlValid(nxt, s.cells)
             THEN UNION {BlGravity(u, n - 1) : u \in {[s EXCEPT !.piece = nxt]}}
             ELSE UNION {BlGravity(u, n - 1) : u \in {BlLock(s, t) : t \in BlTypes}}

\* Writes the game fields of record s back to the scene.
BlStore(s) ==
    /\ bl_cells' = s.cells
    /\ bl_piece' = s.piece
    /\ bl_game_over' = s.game_over
    /\ bl_lines' = s.lines
    /\ bl_score' = s.score
    /\ bl_nlocks' = s.nlocks

\* _reset, with t the type its _spawn draws.
BlFresh(t) ==
    BlSpawn([cells |-> BlEmptyBoard, piece |-> None, game_over |-> FALSE,
             lines |-> 0, score |-> 0, nlocks |-> 0], t)

BlInit ==
    /\ \E t \in BlTypes : /\ bl_cells = BlFresh(t).cells
                          /\ bl_piece = BlFresh(t).piece
                          /\ bl_game_over = BlFresh(t).game_over
    /\ bl_lines = 0
    /\ bl_score = 0
    /\ bl_last_tap = 0
    /\ bl_nlocks = 0
    /\ bl_drops = 0

\* handle_event for KEYDOWN K_LEFT / K_a (dx = -1) and K_RIGHT / K_d (dx = 1).
BlShift(dx) ==
    LET nxt == [bl_piece EXCEPT !.col = bl_piece.col + dx]
    IN  IF ~bl_game_over /\ BlValid(nxt, bl_cells)
        THEN /\ bl_piece' = nxt
             /\ UNCHANGED <<bl_cells, bl_game_over, bl_lines, bl_score,
                            bl_last_tap, bl_nlocks, bl_drops>>
        ELSE UNCHANGED bl_vars

\* BlKicks with a fault: the kick to the left is tried before no kick.
BlKicksLeftFirst == <<-1, 0, 1, -2, 2>>

\* The wall-kick offsets, in the order the loop tries them.
BlKicks == <<0, -1, 1, -2, 2>>

\* handle_event, lines 177-180: the loop from the i-th kick on; <<test>> for
\* the placement it commits, <<>> when it ends without a break.
RECURSIVE BlKick(_, _, _)
BlKick(nxt, i, cells) ==
    IF i > Len(BlKicks) THEN <<>>
    ELSE LET test == [nxt EXCEPT !.col = nxt.col + BlKicks[i]]
         IN  IF BlValid(test, cells) THEN <<test>> ELSE BlKick(nxt, i + 1, cells)

\* BlRotated with a fault: the turn is kept when every kick is rejected.
BlRotatedUnchecked(p, cells) ==
    LET nxt  == [p EXCEPT !.o = (p.o + 1) % Len(ROTATIONS[p.type])]
        test == BlKick(nxt, 1, cells)
    IN  IF test = <<>> THEN nxt ELSE test[1]

\* The piece after a rotate input on piece p.
BlRotated(p, cells) ==
    LET nxt  == [p EXCEPT !.o = (p.o + 1) % Len(ROTATIONS[p.type])]
        test == BlKick(nxt, 1, cells)
    IN  IF test = <<>> THEN p ELSE test[1]

\* handle_event for KEYDOWN K_UP / K_w.
BlRotate ==
    IF bl_game_over THEN UNCHANGED bl_vars
    ELSE /\ bl_piece' = BlRotated(bl_piece, bl_cells)
         /\ UNCHANGED <<bl_cells, bl_game_over, bl_lines, bl_score,
                        bl_last_tap, bl_nlocks, bl_drops>>

\* A game is followed while it has locked fewer than BlMaxLocks pieces.
BlFollowed == bl_nlocks < BlMaxLocks

\* handle_event for KEYDOWN K_DOWN / K_s, time.time() returning now.  The
\* soft and down_held flags it also sets only choose the gravity interval
\* of update, which BlUpdate leaves open.
BlDown(now) ==
    IF bl_game_over THEN UNCHANGED bl_vars
    ELSE IF now - bl_last_tap <= HARD_DROP_WINDOW
         THEN /\ \E t \in BlTypes :
                    BlStore(BlLock([BlState EXCEPT
                                       !.piece = BlDropRow(bl_piece, bl_cells)], t))
              /\ bl_last_tap' = 0
              /\ bl_drops' = bl_drops + 1
         ELSE /\ bl_last_tap' = now
              /\ UNCHANGED <<bl_cells, bl_piece, bl_game_over, bl_lines, bl_score,
                             bl_nlocks, bl_drops>>

\* update(dt): elapsed, gravity, soft and timer decide how often the gravity
\* loop runs for the dt given; n is that number of iterations.
BlUpdate(n) ==
    IF bl_game_over THEN UNCHANGED bl_vars
    ELSE /\ \E s \in BlGravity(BlState, n) :
              /\ s.nlocks <= BlMaxLocks
              /\ BlStore(s)
         /\ UNCHANGED <<bl_last_tap, bl_drops>>

\* handle_event for a left click on the Restart button.
BlRestartClick ==
    IF bl_game_over
    THEN /\ \E t \in BlTypes : BlStore(BlFresh(t))
         /\ bl_last_tap' = 0
         /\ bl_drops' = 0
    ELSE UNCHANGED bl_vars

(***************************************************************************)
(* BrickLayer: properties                                                  *)
(***************************************************************************)

\* Every cell of piece p is inside the columns, above the floor and, from
\* row 0 down, on no settled cell.
BlPlaceable(p, cells) ==
    \A q \in BlCellsOf(p) :
        /\ 0 <= q[2] /\ q[2] <= COLS - 1
        /\ q[1] <= ROWS - 1
        /\ q[1] >= 0 => cells[q[1] + 1][q[2] + 1] = None

\* C9: while the game is not over the active piece lies inside columns
\* 0..COLS-1, above the floor, and on no settled cell.
C9_ActivePieceValid == ~bl_game_over => BlPlaceable(bl_piece, bl_cells)

\* A rotated piece that has fallen beside settled cells of an earlier lock.
C9_Witness ==
    /\ ~bl_game_over
    /\ bl_nlocks >= 1
    /\ bl_piece.o # 0
    /\ bl_piece.row >= 1
    /\ \E q \in BlCellsOf(bl_piece) :
          /\ q[1] >= 0 /\ q[2] + 1 <= COLS - 1
          /\ bl_cells[q[1] + 1][q[2] + 2] # None

\* The place of offset dx in the order 0, -1, +1, -2, +2.
BlKickRank(dx) == IF dx = 0 THEN 1 ELSE IF dx < 0 THEN 0 - 2 * dx ELSE 2 * dx + 1

\* Piece p turned to its next rotation index and moved dx columns.
BlTurned(p, dx) ==
    [type |-> p.type, o |-> (p.o + 1) % Len(ROTATIONS[p.type]),
     row |-> p.row, col |-> p.col + dx]

\* C10: a rotate input never changes the piece's row or type; when one of the
\* offsets 0, -1, +1, -2, +2 gives the next rotation a valid placement, the
\* piece becomes that rotation at the first such offset in this order.
C10_RotateFirstValidKick ==
    [][(~bl_game_over /\ BlRotate) =>
          LET ok == {dx \in -2 .. 2 : BlPlaceable(BlTurned(bl_piece, dx), bl_cells)}
          IN  /\ bl_piece'.row = bl_piece.row
              /\ bl_piece'.type = bl_piece.type
              /\ \A dx \in ok :
                    (\A e \in ok : BlKickRank(dx) <= BlKickRank(e)) =>
                        bl_piece' = BlTurned(bl_piece, dx)]_vars

\* The I piece lying flat after a lock: on the way there a rotation was
\* kicked off the wall or off settled cells.
C10_Witness ==
    /\ ~bl_game_over
    /\ bl_nlocks >= 1
    /\ bl_piece.type = "I"
    /\ bl_piece.o = 3
    /\ bl_piece.row >= 1

\* None of the five kick offsets gives the next rotation of p a valid
\* placement.
BlNoKick(p, cells) ==
    \A dx \in {0, -1, 1, -2, 2} : ~BlPlaceable(BlTurned(p, dx), cells)

\* Piece p moved dx columns.
BlMoved(p, dx) == [type |-> p.type, o |-> p.o, row |-> p.row, col |-> p.col + dx]

\* C11: a rotate input with no valid kick, and a left or right shift whose
\* target placement is invalid, leave the active piece and the board as they
\* were.
C11_RejectedInputNoEffect ==
    [][/\ (~bl_game_over /\ BlRotate /\ BlNoKick(bl_piece, bl_cells))
            => UNCHANGED <<bl_piece, bl_cells>>
       /\ \A dx \in {-1, 1} :
            (~bl_game_over /\ BlShift(dx)
                /\ ~BlPlaceable(BlMoved(bl_piece, dx), bl_cells))
            => UNCHANGED <<bl_piece, bl_cells>>]_vars

\* A piece after a lock that no kick lets turn and that a wall or a settled
\* cell keeps from shifting left: both inputs are taken and rejected here.
C11_Witness ==
    /\ ~bl_game_over
    /\ BlFollowed
    /\ bl_piece.row >= 1
    /\ BlNoKick(bl_piece, bl_cells)
    /\ ~BlPlaceable(BlMoved(bl_piece, -1), bl_cells)

\* The row a piece p that lies validly comes to rest in when it falls
\* straight down: every row on the way is valid, the next one is not.
BlRestRow(p, cells) ==
    CHOOSE r \in p.row .. ROWS :
        /\ \A q \in p.row .. r : BlPlaceable([p EXCEPT !.row = q], cells)
        /\ ~BlPlaceable([p EXCEPT !.row = r + 1], cells)

BlRest(p, cells) == [p EXCEPT !.row = BlRestRow(p, cells)]

\* The board with the cells of piece p written into it.
BlWith(p, cells) ==
    LET covered == BlCellsOf(p)
    IN  [r \in 1 .. ROWS |->
            [c \in 1 .. COLS |->
                IF <<r - 1, c - 1>> \in covered THEN p.type ELSE cells[r][c]]]

\* The rows of a board that have no empty cell.
BlFullRows(cells) == {r \in 1 .. ROWS : \A c \in 1 .. COLS : cells[r][c] # None}

\* The step locks exactly one piece: the active piece, where it comes to rest.
BlOneLock == ~bl_game_over /\ bl_nlocks' = bl_nlocks + 1

\* The board before the rows of the step's one lock are cleared.
BlLocked == BlWith(BlRest(bl_piece, bl_cells), bl_cells)

\* C12: a lock that fills k rows adds k*k*100 to the score and k to the line
\* count (nothing when k = 0), and a step without a lock changes neither; two
\* rows in one lock give 400, one row in each of two locks 100 + 100.
C12_QuadraticLineScore ==
    [][/\ BlOneLock =>
            LET k == Cardinality(BlFullRows(BlLocked))
            IN  /\ bl_score' = bl_score + k * k * 100
                /\ bl_lines' = bl_lines + k
       /\ bl_nlocks' = bl_nlocks => UNCHANGED <<bl_score, bl_lines>>]_vars

\* Two rows were cleared by one lock.
C12_Witness == bl_lines = 2 /\ bl_score = 400

\* The m-th row of board W, from the top, among those not in the set full.
BlSurvivor(m, full) ==
    CHOOSE r \in (1 .. ROWS) \ full :
        Cardinality({q \in (1 .. ROWS) \ full : q <= r}) = m

\* C13: after every lock the board has ROWS rows of COLS cells and no
\* completely filled row; a lock that fills k rows leaves k empty rows on top,
\* followed by the other rows of the locked board in their order and with
\* their contents.
C13_ClearKeepsBoardShape ==
    [][/\ (~bl_game_over /\ bl_nlocks' > bl_nlocks) =>
            /\ Len(bl_cells') = ROWS
            /\ \A r \in 1 .. ROWS : Len(bl_cells'[r]) = COLS
            /\ BlFullRows(bl_cells') = {}
       /\ BlOneLock =>
            LET W    == BlLocked
                full == BlFullRows(W)
                k    == Cardinality(full)
            IN  /\ \A r \in 1 .. k : \A c \in 1 .. COLS : bl_cells'[r][c] = None
                /\ \A r \in k + 1 .. ROWS :
                      bl_cells'[r] = W[BlSurvivor(r - k, full)]]_vars

\* One row was cleared and cells that survived lie in the bottom row, under
\* an empty top row.
C13_Witness ==
    /\ bl_lines = 1
    /\ bl_nlocks = 2
    /\ bl_cells[1] = BlEmptyRow
    /\ \E c \in 1 .. COLS : bl_cells[ROWS][c] # None

\* A fresh spawn of type t: rotation 0, row 0, column COLS // 2.
BlSpawned(t) == [type |-> t, o |-> 0, row |-> 0, col |-> COLS \div 2]

\* C14: game_over is set only by a step that locks; when the step locks one
\* piece, either the piece spawned after it (the active piece of the next
\* state, which can only have fallen since) was invalid at the spawn position
\* or the locked piece has a cell above row 0.  A shift, a rotation or a
\* fall without a lock never sets it.
C14_GameOverCauses ==
    [][(~bl_game_over /\ bl_game_over') =>
          /\ bl_nlocks' > bl_nlocks
          /\ BlOneLock =>
                \/ ~BlPlaceable(BlSpawned(bl_piece'.type), bl_cells')
                \/ \E q \in BlCellsOf(BlRest(bl_piece, bl_cells)) : q[1] < 0]_vars

\* The game ended with a spawn that is valid: a lock above row 0 ended it.
C14_Witness ==
    /\ bl_game_over
    /\ bl_nlocks = 2
    /\ bl_piece = BlSpawned(bl_piece.type)
    /\ BlPlaceable(bl_piece, bl_cells)

\* Board W with its full rows taken out and as many empty rows put on top.
BlCleared(W) ==
    LET full == BlFullRows(W)
        k    == Cardinality(full)
    IN  [r \in 1 .. ROWS |->
            IF r <= k THEN [c \in 1 .. COLS |-> None]
            ELSE W[BlSurvivor(r - k, full)]]

\* The step is a Down press inside the hard-drop window of the last tap
\* (such a press resets last_tap; stated first, it spares evaluating BlDown
\* for the other steps).
BlHardDrop ==
    /\ ~bl_game_over
    /\ bl_last_tap' = 0
    /\ \E now \in BlTimes :
          now >= bl_last_tap /\ now - bl_last_tap <= HARD_DROP_WINDOW /\ BlDown(now)

\* C15: a hard drop locks the active piece within the same input, in its
\* column and rotation, at the row where the next one-row fall is invalid;
\* the piece spawned after it has not moved.  Every step that locks one piece,
\* by hard drop or by gravity, settles it at that row, never higher.
C15_HardDropLocksAtRest ==
    [][/\ BlHardDrop =>
            /\ bl_nlocks' = bl_nlocks + 1
            /\ bl_piece' = BlSpawned(bl_piece'.type)
       /\ (BlHardDrop \/ BlOneLock) =>
            \E r \in bl_piece.row .. ROWS :
                LET at == [bl_piece EXCEPT !.row = r]
                IN  /\ \A q \in bl_piece.row .. r :
                          BlPlaceable([bl_piece EXCEPT !.row = q], bl_cells)
                    /\ ~BlPlaceable([bl_piece EXCEPT !.row = r + 1], bl_cells)
                    /\ bl_cells' = BlCleared(BlWith(at, bl_cells))]_vars

\* Two hard drops were made and the game goes on over settled cells.
C15_Witness ==
    /\ bl_drops = 2
    /\ bl_nlocks = 2
    /\ bl_last_tap = 0
    /\ ~bl_game_over
    /\ \E c \in 1 .. COLS : bl_cells[ROWS][c] # None

\* The step is a Down press at the time now, in a game that goes on.
BlDownPress(now) ==
    /\ ~bl_game_over
    /\ now >= bl_last_tap
    /\ BlDown(now)

\* C34: a Down press less than 200 ms after the previous Down press is a
\* hard drop; a later one only starts a soft drop, and is the previous press
\* of the next one.
C34_DoubleTapWithin200ms ==
    [][\A now \in BlTimes :
          BlDownPress(now) =>
              IF now - bl_last_tap < 200
              THEN bl_drops' = bl_drops + 1
              ELSE bl_drops' = bl_drops /\ bl_last_tap' = now]_vars

\* The game fields of the next state, as one record.
BlStateNext == [cells |-> bl_cells', piece |-> bl_piece', game_over |-> bl_game_over',
                lines |-> bl_lines', score |-> bl_score', nlocks |-> bl_nlocks']

\* The gravity loop as C16 has it: once game over is entered, no further
\* iteration falls, locks, clears or spawns.
RECURSIVE BlGravityHalting(_, _)
BlGravityHalting(s, n) ==
    IF n = 0 \/ s.game_over THEN {s}
    ELSE LET nxt == [s.piece EXCEPT !.row = s.piece.row + 1]
         IN  IF BlValid(nxt, s.cells)
             THEN UNION {BlGravityHalting(u, n - 1) : u \in {[s EXCEPT !.piece = nxt]}}
             ELSE UNION {BlGravityHalting(u, n - 1) : u \in {BlLock(s, t) : t \in BlTypes}}

\* C16: once game_over is true the board, the score, the line count and the
\* active piece change only by Restart, and the update call whose gravity
\* loop enters game over does nothing after the lock that entered it.
C16_NothingAfterGameOver ==
    [][/\ bl_game_over =>
            \/ UNCHANGED <<bl_cells, bl_score, bl_lines, bl_piece>>
            \/ BlRestartClick
       /\ \A n \in 1 .. BlMaxFalls :
            (~bl_game_over /\ bl_game_over' /\ BlUpdate(n))
                => BlStateNext \in BlGravityHalting(BlState, n)]_vars

(***************************************************************************)
(* Pipeline                                                                *)
(***************************************************************************)

\* The presets a scene is built with (DIFFICULTIES), scaled down.
PlConfigs ==
    {[rows |-> 2, cols |-> 3, pair_count |-> 2, min_seg |-> 2],
     [rows |-> 1, cols |-> 7, pair_count |-> 3, min_seg |-> 2]}

\* A generation is followed for at most this many failed attempts.
PlMaxAttempts == 1

PlCellSet == (0 .. pl_rows - 1) \X (0 .. pl_cols - 1)

PlColours == 0 .. pl_pair_n - 1

\* DIRS: D U R L
DIRS == <<<<1, 0>>, <<-1, 0>>, <<0, 1>>, <<0, -1>>>>

\* _neighbors
PlNeighbors(rc) ==
    {<<rc[1] + DIRS[i][1], rc[2] + DIRS[i][2]>> : i \in 1 .. Len(DIRS)} \cap PlCellSet

\* The cells of a path.
PlCells(path) == {path[i] : i \in 1 .. Len(path)}

\* PlLengthsFrom with a fault: nothing is held back for the later segments.
RECURSIVE PlLengthsNoReserve(_, _)
PlLengthsNoReserve(i, rem) ==
    IF i = 0 THEN {<<>>}
    ELSE IF i = 1 THEN {<<rem>>}
    ELSE UNION {{<<L>> \o t : t \in PlLengthsNoReserve(i - 1, rem - L)} :
                    L \in pl_min_seg .. rem}

\* _generate_board, lines 161-169: the length lists the randint calls can
\* give for segments i, i-1, ..., 1 with rem cells left.
RECURSIVE PlLengthsFrom(_, _)
PlLengthsFrom(i, rem) ==
    IF i = 0 THEN {<<>>}
    ELSE IF i = 1 THEN {<<rem>>}
    ELSE UNION {{<<L>> \o t : t \in PlLengthsFrom(i - 1, rem - L)} :
                    L \in pl_min_seg .. rem - pl_min_seg * (i - 1)}

\* PlWalk with a fault: the walk may step onto a cell of its own path.
RECURSIVE PlWalkRevisit(_, _, _)
PlWalkRevisit(path, L, used) ==
    IF Len(path) >= L THEN {path}
    ELSE LET opts == {n \in PlNeighbors(path[Len(path)]) : n \notin used}
         IN  IF opts = {} THEN {path}
             ELSE UNION {PlWalkRevisit(Append(path, n), L, used) : n \in opts}

\* _generate_board, lines 181-186: the paths the walk can stop with, either
\* at length L or earlier with no option left.
RECURSIVE PlWalk(_, _, _)
PlWalk(path, L, used) ==
    IF Len(path) >= L THEN {path}
    ELSE LET opts == {n \in PlNeighbors(path[Len(path)]) :
                        n \notin used /\ n \notin PlCells(path)}
         IN  IF opts = {} THEN {path}
             ELSE UNION {PlWalk(Append(path, n), L, used) : n \in opts}

\* The walks one of the 200 tries can end with, for each start not in used.
PlTries(L, used) == UNION {PlWalk(<<start>>, L, used) : start \in PlCellSet \ used}

\* The segments a try can place: the walks that reached length L.
PlPlaced(L, used) == {path \in PlTries(L, used) : Len(path) = L}

\* All 200 tries can fail: a try fails when its start is in used or its walk
\* stops short.
PlCanFail(L, used) ==
    \/ used # {}
    \/ \E path \in PlTries(L, used) : Len(path) # L

\* _generate_board, lines 171-193: the outcomes of laying out the lengths ls
\* after the segments segs, over all random choices.
RECURSIVE PlLay(_, _, _)
PlLay(ls, used, segs) ==
    IF ls = <<>> THEN {[failed |-> FALSE, segments |-> segs]}
    ELSE (IF PlCanFail(Head(ls), used)
          THEN {[failed |-> TRUE, segments |-> <<>>]} ELSE {})
         \cup UNION {PlLay(Tail(ls), used \cup PlCells(path), Append(segs, path)) :
                        path \in PlPlaced(Head(ls), used)}

\* Cell: type "empty", color None.  Colours are the numbers 0, 1, ...; the
\* None of a colour field is written -1.
PlEmptyCell == [type |-> "empty", color |-> -1]

PlNoColour == PlEmptyCell.color

\* _generate_board, lines 198-204: the grid with both ends of each segment
\* made nodes, in the order of the colours.
RECURSIVE PlRegister(_, _, _)
PlRegister(grid, segs, col) ==
    IF col > Len(segs) THEN grid
    ELSE LET seg   == segs[col]
             node  == [type |-> "node", color |-> col - 1]
             first == [grid EXCEPT ![seg[1]] = node]
         IN  PlRegister([first EXCEPT ![seg[Len(seg)]] = node], segs, col + 1)

\* nodes.extend([(*seg[0], col), (*seg[-1], col)]) for each colour.
PlNodeList(segs) ==
    [i \in 1 .. 2 * Len(segs) |->
        LET seg == segs[(i + 1) \div 2]
        IN  IF i % 2 = 1 THEN <<seg[1][1], seg[1][2], (i + 1) \div 2 - 1>>
            ELSE <<seg[Len(seg)][1], seg[Len(seg)][2], (i + 1) \div 2 - 1>>]

\* __init__ up to the loop of _generate_board: _init_state on a fresh grid.
PlInit ==
    /\ \E cfg \in PlConfigs : /\ pl_rows = cfg.rows
                              /\ pl_cols = cfg.cols
                              /\ pl_pair_n = cfg.pair_count
                              /\ pl_min_seg = cfg.min_seg
    /\ pl_pos = "generate"
    /\ pl_lengths = <<>>
    /\ pl_attempts = 0
    /\ pl_solution = <<>>
    /\ pl_nodes = <<>>
    /\ pl_grid = [rc \in PlCellSet |-> PlEmptyCell]
    /\ pl_paths_drawn = <<>>
    /\ pl_completed = <<>>
    /\ pl_active_col = PlNoColour
    /\ pl_active_path = <<>>
    /\ pl_dragging = FALSE
    /\ pl_win = FALSE

\* One pass of the while True loop of _generate_board: the lengths, the
\* layout, and on success the registration that ends __init__.  A failed
\* pass is followed by another whatever number of passes has failed;
\* pl_attempts counts the failed passes up to PlMaxAttempts and stays there.
PlGenerate ==
    /\ pl_pos = "generate"
    /\ \E ls \in PlLengthsFrom(pl_pair_n, pl_rows * pl_cols) :
         \E out \in PlLay(ls, {}, <<>>) :
            /\ pl_lengths' = ls
            /\ IF out.failed
               THEN /\ pl_attempts' = IF pl_attempts < PlMaxAttempts
                                       THEN pl_attempts + 1 ELSE pl_attempts
                    /\ UNCHANGED <<pl_pos, pl_solution, pl_nodes, pl_grid, pl_completed>>
               ELSE /\ pl_pos' = "play"
                    /\ pl_solution' = out.segments
                    /\ pl_nodes' = PlNodeList(out.segments)
                    /\ pl_grid' = PlRegister(pl_grid, out.segments, 1)
                    /\ pl_completed' = [col \in 0 .. Len(out.segments) - 1 |-> FALSE]
                    /\ UNCHANGED pl_attempts
    /\ UNCHANGED <<pl_cfg, pl_paths_drawn, pl_active_col, pl_active_path,
                   pl_dragging, pl_win>>

\* PlRelease with a fault: the cells among cs are made empty whatever they
\* hold.
PlReleaseAny(grid, cs) ==
    [x \in PlCellSet |-> IF x \in cs THEN PlEmptyCell ELSE grid[x]]

\* The grid with the pipe cells among cs made empty.
PlRelease(grid, cs) ==
    [x \in PlCellSet |->
        IF x \in cs /\ grid[x].type = "pipe" THEN PlEmptyCell ELSE grid[x]]

\* handle_event for MOUSEBUTTONDOWN, button 1, on cell rc: start drag.
PlMouseDown(rc) ==
    /\ pl_pos = "play"
    /\ IF ~pl_win /\ pl_grid[rc].type = "node" /\ pl_grid[rc].color # PlNoColour
       THEN LET col  == pl_grid[rc].color
                prev == IF col \in DOMAIN pl_paths_drawn
                        THEN pl_paths_drawn[col] ELSE <<>>
            IN  /\ pl_active_col' = col
                /\ pl_dragging' = TRUE
                /\ pl_active_path' = <<rc>>
                /\ pl_paths_drawn' =
                      [k \in DOMAIN pl_paths_drawn \ {col} |-> pl_paths_drawn[k]]
                /\ pl_grid' = PlRelease(pl_grid, PlCells(prev))
                /\ UNCHANGED <<pl_cfg, pl_gen, pl_completed, pl_win>>
       ELSE UNCHANGED pl_vars

\* list.index: the first position of rc in path.
PlIndex(path, rc) == CHOOSE i \in 1 .. Len(path) :
                        path[i] = rc /\ \A j \in 1 .. i - 1 : path[j] # rc

\* handle_event for MOUSEMOTION over cell rc: drag move.
PlMouseMotion(rc) ==
    /\ pl_pos = "play"
    /\ IF pl_win \/ ~pl_dragging THEN UNCHANGED pl_vars
       ELSE LET last == pl_active_path[Len(pl_active_path)]
                dr   == IF rc[1] >= last[1] THEN rc[1] - last[1] ELSE last[1] - rc[1]
                dc   == IF rc[2] >= last[2] THEN rc[2] - last[2] ELSE last[2] - rc[2]
                tile == pl_grid[rc]
            IN  IF dr + dc # 1 THEN UNCHANGED pl_vars
                ELSE IF rc \in PlCells(pl_active_path)
                THEN LET idx == PlIndex(pl_active_path, rc)
                     IN  /\ pl_grid' = PlRelease(pl_grid,
                               {pl_active_path[i] : i \in idx + 1 .. Len(pl_active_path)})
                         /\ pl_active_path' = SubSeq(pl_active_path, 1, idx)
                         /\ UNCHANGED <<pl_cfg, pl_gen, pl_paths_drawn, pl_completed,
                                        pl_active_col, pl_dragging, pl_win>>
                ELSE IF tile.type \in {"node", "pipe"} /\ tile.color # pl_active_col
                THEN UNCHANGED pl_vars
                ELSE /\ pl_grid' = IF tile.type = "empty"
                                   THEN [pl_grid EXCEPT ![rc] =
                                            [type |-> "pipe", color |-> pl_active_col]]
                                   ELSE pl_grid
                     /\ pl_active_path' = Append(pl_active_path, rc)
                     /\ UNCHANGED <<pl_cfg, pl_gen, pl_paths_drawn, pl_completed,
                                    pl_active_col, pl_dragging, pl_win>>

\* PlAllConnectedAndFilled with a fault: a cell counts as filled only when it
\* is a pipe cell.
PlAllConnectedAndPipes(completed, grid) ==
    /\ \A col \in DOMAIN completed : completed[col]
    /\ \A x \in PlCellSet : grid[x].type = "pipe"

\* _all_connected_and_filled
PlAllConnectedAndFilled(completed, grid) ==
    /\ \A col \in DOMAIN completed : completed[col]
    /\ \A x \in PlCellSet : grid[x].type # "empty"

\* The (r, c) of the nodes of colour col.
PlEnds(col) == {<<pl_nodes[i][1], pl_nodes[i][2]>> :
                  i \in {j \in 1 .. Len(pl_nodes) : pl_nodes[j][3] = col}}

\* PlCommits with a fault: the length of the path is not looked at.
PlCommitsAnyLength(path, col) == path[Len(path)] \in PlEnds(col)

\* handle_event, line 271: the released path is committed.
PlCommits(path, col) == path[Len(path)] \in PlEnds(col) /\ Len(path) >= 2

\* handle_event for MOUSEBUTTONUP, button 1: end drag.
PlMouseUp ==
    /\ pl_pos = "play"
    /\ IF pl_win \/ ~pl_dragging THEN UNCHANGED pl_vars
       ELSE IF pl_active_path = <<>> \/ pl_active_col = PlNoColour
       THEN /\ pl_dragging' = FALSE
            /\ UNCHANGED <<pl_cfg, pl_gen, pl_grid, pl_paths_drawn, pl_completed,
                           pl_active_col, pl_active_path, pl_win>>
       ELSE LET col    == pl_active_col
                commit == PlCommits(pl_active_path, col)
                drawn  == IF commit
                          THEN [k \in DOMAIN pl_paths_drawn \cup {col} |->
                                   IF k = col THEN pl_active_path ELSE pl_paths_drawn[k]]
                          ELSE pl_paths_drawn
                done   == IF commit THEN [pl_completed EXCEPT ![col] = TRUE]
                          ELSE pl_completed
                grid   == IF commit THEN pl_grid
                          ELSE [x \in PlCellSet |->
                                  IF /\ x \in PlCells(Tail(pl_active_path))
                                     /\ pl_grid[x].type = "pipe"
                                     /\ pl_grid[x].color = col
                                  THEN PlEmptyCell ELSE pl_grid[x]]
            IN  /\ pl_dragging' = FALSE
                /\ pl_paths_drawn' = drawn
                /\ pl_completed' = done
                /\ pl_grid' = grid
                /\ pl_active_path' = <<>>
                /\ pl_active_col' = PlNoColour
                /\ pl_win' = IF PlAllConnectedAndFilled(done, grid) THEN TRUE ELSE pl_win
                /\ UNCHANGED <<pl_cfg, pl_gen>>

\* _build_dir_map, add: the direction of the step from a to b.
PlDir(a, b) ==
    IF a[1] = b[1] THEN (IF b[2] > a[2] THEN "R" ELSE "L")
    ELSE (IF b[1] > a[1] THEN "D" ELSE "U")

\* PlOpp with a fault: the neighbour is given the direction itself.
PlOppSame(d) == d

\* _build_dir_map, add: the opposite direction, for the neighbour.
PlOpp(d) == CASE d = "U" -> "D" [] d = "D" -> "U" [] d = "L" -> "R" [] d = "R" -> "L"

\* _build_dir_map, add for the steps of path from position i on.
RECURSIVE PlAddSteps(_, _, _)
PlAddSteps(map, path, i) ==
    IF i >= Len(path) THEN map
    ELSE LET a   == path[i]
             b   == path[i + 1]
             dir == PlDir(a, b)
             m1  == [map EXCEPT ![a] = Append(@, dir)]
         IN  PlAddSteps([m1 EXCEPT ![b] = Append(@, PlOpp(dir))], path, i + 1)

\* _build_dir_map, the loop over the committed paths of the colours cols.
RECURSIVE PlAddCommitted(_, _)
PlAddCommitted(map, cols) ==
    IF cols = {} THEN map
    ELSE LET col == CHOOSE k \in cols : \A j \in cols : k <= j
         IN  PlAddCommitted(PlAddSteps(map, pl_paths_drawn[col], 1), cols \ {col})

\* _build_dir_map: cell -> list of directions (empty for a cell that is not
\* a key of the map).
PlBuildDirMap ==
    LET committed == PlAddCommitted([x \in PlCellSet |-> <<>>], DOMAIN pl_paths_drawn)
    IN  IF pl_dragging /\ pl_active_path # <<>>
        THEN PlAddSteps(committed, pl_active_path, 1)
        ELSE committed

\* handle_event for any other event (Escape, other buttons, positions off
\* the board): no field changes.
PlOtherEvent == pl_pos = "play" /\ UNCHANGED pl_vars

(***************************************************************************)
(* Pipeline: properties                                                    *)
(***************************************************************************)

\* Cells a and b are next to each other in a row or a column.
PlAdjacent(a, b) ==
    \/ a[1] = b[1] /\ (a[2] = b[2] + 1 \/ b[2] = a[2] + 1)
    \/ a[2] = b[2] /\ (a[1] = b[1] + 1 \/ b[1] = a[1] + 1)

\* path is a sequence of board cells, each next to the one before it, none
\* twice.
PlIsPath(path) ==
    /\ \A i \in 1 .. Len(path) : path[i] \in PlCellSet
    /\ \A i \in 1 .. Len(path) - 1 : PlAdjacent(path[i], path[i + 1])
    /\ \A i, j \in 1 .. Len(path) : i # j => path[i] # path[j]

\* C17: once _generate_board has returned, the segments are paths of
\* adjacent cells without repetition, pairwise disjoint, and together they
\* cover every cell of the board.
C17_SegmentsPartitionBoard ==
    pl_pos = "play" =>
        /\ \A k \in 1 .. Len(pl_solution) : PlIsPath(pl_solution[k])
        /\ \A k, m \in 1 .. Len(pl_solution) :
              k # m => \A i \in 1 .. Len(pl_solution[k]) :
                          \A j \in 1 .. Len(pl_solution[m]) :
                              pl_solution[k][i] # pl_solution[m][j]
        /\ \A x \in PlCellSet :
              \E k \in 1 .. Len(pl_solution) :
                  \E i \in 1 .. Len(pl_solution[k]) : pl_solution[k][i] = x

\* A board generated after a failed attempt, with a segment that bends.
C17_Witness ==
    /\ pl_pos = "play"
    /\ pl_attempts >= 1
    /\ \E k \in 1 .. Len(pl_solution) :
          \E i \in 1 .. Len(pl_solution[k]) - 2 :
              /\ pl_solution[k][i][1] # pl_solution[k][i + 2][1]
              /\ pl_solution[k][i][2] # pl_solution[k][i + 2][2]

RECURSIVE PlSum(_)
PlSum(ls) == IF ls = <<>> THEN 0 ELSE Head(ls) + PlSum(Tail(ls))

\* C18: the lengths chosen in a generation attempt, failed or not, are
\* pair_count numbers, each at least min_seg, that sum to rows * cols.
C18_LengthsPartitionTotal ==
    pl_lengths # <<>> =>
        /\ Len(pl_lengths) = pl_pair_n
        /\ \A i \in 1 .. Len(pl_lengths) : pl_lengths[i] >= pl_min_seg
        /\ PlSum(pl_lengths) = pl_rows * pl_cols

\* An attempt that failed, the first of its lengths above the minimum.
C18_Witness ==
    /\ pl_pos = "generate"
    /\ pl_attempts >= 1
    /\ pl_lengths # <<>>
    /\ pl_lengths[1] > pl_min_seg

\* The node cells of colour col on the grid.
PlNodesOf(col) == {x \in PlCellSet : pl_grid[x].type = "node" /\ pl_grid[x].color = col}

\* The step is the release of a drag.
PlReleaseStep == pl_pos = "play" /\ ~pl_win /\ pl_dragging /\ PlMouseUp

\* C19: on release the active path becomes the committed path of its colour
\* exactly when it has at least 2 cells and ends on a node of that colour
\* (its first and last cells are then the two nodes of the colour); otherwise
\* no committed path changes and every pipe cell of the path becomes empty.
C19_CommitOnlyNodeToNode ==
    [][PlReleaseStep =>
          LET col  == pl_active_col
              path == pl_active_path
              last == path[Len(path)]
          IN  IF Len(path) >= 2 /\ last \in PlNodesOf(col)
              THEN /\ DOMAIN pl_paths_drawn' = DOMAIN pl_paths_drawn \cup {col}
                   /\ pl_paths_drawn'[col] = path
                   /\ \A k \in DOMAIN pl_paths_drawn \ {col} :
                         pl_paths_drawn'[k] = pl_paths_drawn[k]
                   /\ PlNodesOf(col) = {path[1], last}
                   /\ path[1] # last
              ELSE /\ pl_paths_drawn' = pl_paths_drawn
                   /\ \A x \in PlCells(path) :
                         pl_grid[x].type = "pipe" => pl_grid'[x] = PlEmptyCell]_vars

\* After a release: one colour has a committed path of three cells or more
\* and part of the board is empty.
C19_Witness ==
    /\ pl_pos = "play"
    /\ ~pl_dragging
    /\ ~pl_win
    /\ \E col \in DOMAIN pl_paths_drawn : Len(pl_paths_drawn[col]) >= 3
    /\ \E x \in PlCellSet : pl_grid[x].type = "empty"

\* Colour col has a committed path that runs from one of its nodes to the
\* other.
PlConnected(col) ==
    /\ col \in DOMAIN pl_paths_drawn
    /\ LET path == pl_paths_drawn[col]
       IN  /\ Len(path) >= 2
           /\ path[1] # path[Len(path)]
           /\ PlNodesOf(col) = {path[1], path[Len(path)]}

\* C20: win is set only when every colour has a committed path from one of
\* its nodes to the other and no cell is empty; a colour whose path a new
\* drag has cleared does not count until it is committed again.
C20_WinNeedsEveryColourCommitted ==
    pl_win =>
        /\ \A col \in PlColours : PlConnected(col)
        /\ \A x \in PlCellSet : pl_grid[x].type # "empty"

\* Cell x lies in the committed path of colour col.
PlInCommitted(x, col) ==
    col \in DOMAIN pl_paths_drawn /\ x \in PlCells(pl_paths_drawn[col])

\* Cell x lies in the live active path, which is of colour col.
PlInActive(x, col) ==
    pl_dragging /\ pl_active_col = col /\ x \in PlCells(pl_active_path)

\* C21: every pipe cell carries a colour and lies in exactly one path of
\* that colour, its committed path or the live active path, and in no path
\* of another colour.
C21_PipeCellsLieInOnePath ==
    pl_pos = "play" =>
        \A x \in PlCellSet :
            pl_grid[x].type = "pipe" =>
                /\ pl_grid[x].color \in PlColours
                /\ PlInCommitted(x, pl_grid[x].color) # PlInActive(x, pl_grid[x].color)
                /\ \A col \in PlColours \ {pl_grid[x].color} :
                      ~PlInCommitted(x, col) /\ ~PlInActive(x, col)

\* The step is a drag move onto the cell rc, which the active path holds.
PlBacktrack(rc) ==
    /\ pl_pos = "play" /\ ~pl_win /\ pl_dragging
    /\ PlAdjacent(rc, pl_active_path[Len(pl_active_path)])
    /\ rc \in PlCells(pl_active_path)
    /\ PlMouseMotion(rc)

\* C35: during a drag the active path is a sequence of adjacent cells without
\* repetition that starts at a node of the active colour; a drag move onto a
\* cell of the path cuts the path to end at that cell and makes every pipe
\* cell beyond it empty, and changes no node cell and no other cell.
C35_ActivePathSimpleAndTruncates ==
    /\ [](pl_pos = "play" /\ pl_dragging =>
             /\ pl_active_path # <<>>
             /\ PlIsPath(pl_active_path)
             /\ pl_active_path[1] \in PlNodesOf(pl_active_col))
    /\ [][\A rc \in PlCellSet :
             PlBacktrack(rc) =>
                 LET idx    == PlIndex(pl_active_path, rc)
                     beyond == {pl_active_path[i] : i \in idx + 1 .. Len(pl_active_path)}
                 IN  /\ pl_active_path' = SubSeq(pl_active_path, 1, idx)
                     /\ pl_active_path'[Len(pl_active_path')] = rc
                     /\ \A x \in PlCellSet :
                           pl_grid'[x] =
                               IF x \in beyond /\ pl_grid[x].type = "pipe"
                               THEN PlEmptyCell ELSE pl_grid[x]
                     /\ \A x \in PlCellSet :
                           (pl_grid[x].type = "node" \/ pl_grid[x].color # pl_active_col)
                               => pl_grid'[x] = pl_grid[x]]_vars

\* A drag that has gone from a node over its colour's other node to a third
\* cell: the cells a move back would give up hold a node and a pipe cell.
C35_Witness ==
    /\ pl_pos = "play"
    /\ pl_dragging
    /\ Len(pl_active_path) >= 3
    /\ \E i \in 2 .. Len(pl_active_path) - 1 : pl_grid[pl_active_path[i]].type = "node"
    /\ pl_grid[pl_active_path[Len(pl_active_path)]].type = "pipe"

\* C36: the direction map built from the committed paths and, while
\* dragging, the live path gives every cell at most two directions, no
\* direction twice.
C36_DirMapAtMostTwoDistinct ==
    pl_pos = "play" =>
        LET map == PlBuildDirMap
        IN  \A x \in PlCellSet :
                /\ Len(map[x]) <= 2
                /\ \A i, j \in 1 .. Len(map[x]) : i # j => map[x][i] # map[x][j]

\* While a drag is live, a cell of a committed path and a cell of the live
\* path each have two directions in the map.
C36_Witness ==
    /\ pl_pos = "play"
    /\ pl_dragging
    /\ LET map == PlBuildDirMap
       IN  /\ \E x \in PlCells(pl_active_path) : Len(map[x]) = 2
           /\ \E col \in DOMAIN pl_paths_drawn :
                  \E x \in PlCells(pl_paths_drawn[col]) : Len(map[x]) = 2

\* The sequence path from its last element to its first.
PlReversed(path) == [i \in 1 .. Len(path) |-> path[Len(path) + 1 - i]]

\* The generated segment of the active colour, read from the node the drag
\* has started at.
PlActiveSegment ==
    LET seg == pl_solution[pl_active_col + 1]
    IN  IF pl_active_path[1] = seg[1] THEN seg ELSE PlReversed(seg)

\* The player presses the button on one of the two nodes of a colour that has
\* no committed path.
PlSolveDown ==
    /\ pl_pos = "play" /\ ~pl_dragging
    /\ \E col \in PlColours \ DOMAIN pl_paths_drawn :
          \E rc \in {pl_solution[col + 1][1],
                     pl_solution[col + 1][Len(pl_solution[col + 1])]} :
              PlMouseDown(rc)

\* The player moves the pointer to the next cell of the generated segment.
PlSolveMove ==
    /\ pl_pos = "play" /\ pl_dragging
    /\ LET seg == PlActiveSegment
           n   == Len(pl_active_path)
       IN  /\ n < Len(seg)
           /\ pl_active_path = SubSeq(seg, 1, n)
           /\ PlMouseMotion(seg[n + 1])

\* The player releases the button at the end of the generated segment.
PlSolveUp ==
    /\ pl_pos = "play" /\ pl_dragging
    /\ Len(pl_active_path) = Len(PlActiveSegment)
    /\ \A i \in 1 .. Len(pl_active_path) : pl_active_path[i] = PlActiveSegment[i]
    /\ PlMouseUp

\* C37: once a board is generated, the player who drags every colour along
\* its generated segment, from either node and in any order of the colours,
\* and releases, reaches win.
C37_GeneratedPuzzleIsWinnable == (pl_pos = "play") ~> (pl_win = TRUE)

\* The board is won with every committed path equal to the generated segment
\* or its reverse, one of them reversed.
C37_Witness ==
    /\ pl_pos = "play"
    /\ pl_win = TRUE
    /\ DOMAIN pl_paths_drawn = PlColours
    /\ \E col \in PlColours : pl_paths_drawn[col] = pl_solution[col + 1]
    /\ \E col \in PlColours :
          /\ pl_paths_drawn[col] # pl_solution[col + 1]
          /\ \A i \in 1 .. Len(pl_paths_drawn[col]) :
                pl_paths_drawn[col][i] = PlReversed(pl_solution[col + 1])[i]

\* C22: puzzle generation always terminates: the passes of the generation
\* loop that fail are capped, so that the loop is eventually left.
C22_GenerationTerminates == <>(pl_pos # "generate")

(***************************************************************************)
(* Snake                                                                   *)
(***************************************************************************)

\* rows = cols, the side of the square board (15 in the source).
SnRows == 4

\* The cap on the items on the board (15 in the source).
MAX_ITEMS_ON_BOARD == 2

\* Times are integers.  step_time is 1 / speed; the delay of the extra spawn
\* and the shortest lifetime of a poison item keep the order of the source
\* (several steps, then 3.0 seconds, then 10.0 seconds, and two extra spawns
\* that fit in a lifetime).
step_time == 2

POISON_EXTRA_SPAWN == 7

POISON_LIFETIME_MIN == 18

\* A game is followed for SnMaxSteps steps and SnMaxSpawns spawned items.
SnMaxSteps == 4

SnMaxSpawns == 4

\* apple_ratio of the difficulties Easy and Hard, in percent.
SnRatios == {100, 50}

\* The values random.random() returns, in percent.
SnRandoms == {0, 99}

\* The value random.uniform(POISON_LIFETIME_MIN, POISON_LIFETIME_MAX) is
\* followed for.
SnLifetimes == {POISON_LIFETIME_MIN}

\* The dt values update is called with: half a step, a step.
SnDts == {1, 2}

\* The wall-clock intervals for which the frame driver stops calling the
\* scene, and the longest time it stops for in a game, all stops together.
SnWaits == {POISON_EXTRA_SPAWN}

SnMaxLag == 14

\* despawn_at of an apple is None; -1 stands for it.
SnNoTime == -1

SnCellSet == (0 .. SnRows - 1) \X (0 .. SnRows - 1)

SnCells(snake) == {snake[i] : i \in 1 .. Len(snake)}

\* The directions the keys of handle_event map to.
SnDirs == {<<-1, 0>>, <<1, 0>>, <<0, -1>>, <<0, 1>>}

\* random.choice(free) is followed for one cell: the first free one of the
\* cell ahead of the first head and three cells on a way on from it, else a
\* free cell.
SnFoodCells ==
    LET mid == SnRows \div 2
    IN  <<<<mid, mid + 1>>, <<mid - 1, mid + 1>>, <<mid - 1, mid>>,
          <<mid - 1, mid - 1>>>>

\* SnChoice with a fault: the cell is taken whether it is free or not.
SnChoiceAny(free) == {SnFoodCells[1]}

\* _spawn_food, line 114: random.choice(free), followed for one cell.
SnChoice(free) ==
    LET idx == {i \in 1 .. Len(SnFoodCells) : SnFoodCells[i] \in free}
    IN  IF idx = {} THEN {CHOOSE c \in free : TRUE}
        ELSE {SnFoodCells[CHOOSE i \in idx : \A j \in idx : i <= j]}

\* The game fields the helpers read and write, as one record.
SnState == [apple_ratio |-> sn_apple_ratio, snake |-> sn_snake,
            direction |-> sn_direction, next_direction |-> sn_next_direction,
            poison_penalty |-> sn_poison_penalty, game_over |-> sn_game_over,
            foods |-> sn_foods, spawn_queue |-> sn_spawn_queue,
            spawned |-> sn_spawned, nsteps |-> sn_nsteps,
            now |-> sn_now, played |-> sn_played,
            expired |-> {}, fired |-> {}]

\* Writes the game fields of record s back to the scene.
SnStore(s) ==
    /\ sn_snake' = s.snake
    /\ sn_direction' = s.direction
    /\ sn_next_direction' = s.next_direction
    /\ sn_poison_penalty' = s.poison_penalty
    /\ sn_game_over' = s.game_over
    /\ sn_foods' = s.foods
    /\ sn_spawn_queue' = s.spawn_queue
    /\ sn_spawned' = s.spawned
    /\ sn_nsteps' = s.nsteps
    /\ sn_expired' = s.expired
    /\ sn_fired' = s.fired

\* The dicts _spawn_food can append at pos when random.random() returns x.
\* History: played_at is the sum of dt at which the lifetime is over, id the
\* rank of the spawn in the game.
SnItems(pos, x, s) ==
    IF x >= s.apple_ratio
    THEN {[pos |-> pos, type |-> "poison", despawn_at |-> s.now + life,
           played_at |-> s.played + life, id |-> s.spawned + 1] :
             life \in SnLifetimes}
    ELSE {[pos |-> pos, type |-> "apple", despawn_at |-> SnNoTime,
           played_at |-> SnNoTime, id |-> s.spawned + 1]}

\* _spawn_food, lines 117-124: item f is appended, and a poison item
\* schedules the extra spawn.
SnWithItem(s, f) ==
    [s EXCEPT !.foods = Append(@, f),
              !.spawned = @ + 1,
              !.spawn_queue = IF f.type = "poison"
                              THEN Append(@, [due_at |-> s.now + POISON_EXTRA_SPAWN,
                                              played_at |-> s.played + POISON_EXTRA_SPAWN])
                              ELSE @]

\* SnEvict with a fault: the newest item makes room.
SnEvictNewest(foods) ==
    IF Len(foods) >= MAX_ITEMS_ON_BOARD
    THEN SubSeq(foods, 1, Len(foods) - 1) ELSE foods

\* _spawn_food, lines 106-107: foods.pop(0) at the cap.
SnEvict(foods) ==
    IF Len(foods) >= MAX_ITEMS_ON_BOARD THEN Tail(foods) ELSE foods

\* _spawn_food: the outcomes over the random choices.
SnSpawnFood(s) ==
    LET fs       == SnEvict(s.foods)
        occupied == SnCells(s.snake) \cup {fs[i].pos : i \in 1 .. Len(fs)}
        free     == SnCellSet \ occupied
        t        == [s EXCEPT !.foods = fs]
    IN  IF free = {} THEN {t}
        ELSE {SnWithItem(t, f) :
                f \in UNION {SnItems(pos, x, s) :
                                pos \in SnChoice(free), x \in SnRandoms}}

\* SnValidTurn with a fault: every turn is taken.
SnValidTurnAny(direction, new) == new \in SnDirs

\* _valid_turn
SnValidTurn(direction, new) == new # <<-direction[1], -direction[2]>>

\* SnCrash with a fault: the body is not looked at.
SnCrashWallsOnly(snake, nh) == nh \notin SnCellSet

\* _step, line 137: the new head nh is off the board or in the body.
SnCrash(snake, nh) == nh \notin SnCellSet \/ nh \in SnCells(snake)

\* SnStarves with a fault: a penalty equal to the length is survived.
SnStarvesAbove(p, L) == p > L

\* _step, line 147: the penalty p cannot be paid from a body of length L.
SnStarves(p, L) == p >= L

\* SnShrunk with a fault: one segment is removed whatever the penalty.
SnShrunkByOne(snake, p) == Tail(snake)

\* _step, lines 149-150: p times snake.pop(0).
SnShrunk(snake, p) == SubSeq(snake, p + 1, Len(snake))

\* SnDoubled with a fault: the penalty grows by 2.
SnDoubledByAdding(p) == p + 2

\* _step, line 151
SnDoubled(p) == 2 * p

\* SnMoved with a fault: the tail stays.
SnMovedKeepsTail(grown) == grown

\* _step, line 154: snake.pop(0) when no item was hit.
SnMoved(grown) == Tail(grown)

\* list.remove for the item at index i.
SnWithout(foods, i) ==
    [k \in 1 .. Len(foods) - 1 |-> IF k < i THEN foods[k] ELSE foods[k + 1]]

\* _step: the outcomes over the random choices of _spawn_food.
SnStepOnce(s) ==
    IF s.game_over THEN {s}
    ELSE LET d  == s.next_direction
             h  == s.snake[Len(s.snake)]
             nh == <<h[1] + d[1], h[2] + d[2]>>
             t  == [s EXCEPT !.direction = d, !.nsteps = @ + 1]
         IN  IF SnCrash(s.snake, nh) THEN {[t EXCEPT !.game_over = TRUE]}
             ELSE LET grown == Append(s.snake, nh)
                      hits  == {i \in 1 .. Len(s.foods) : s.foods[i].pos = nh}
                  IN  IF hits = {} THEN {[t EXCEPT !.snake = SnMoved(grown)]}
                      ELSE LET i == CHOOSE k \in hits : \A j \in hits : k <= j
                               u == [t EXCEPT !.snake = grown,
                                              !.foods = SnWithout(@, i)]
                           IN  IF s.foods[i].type = "apple"
                               THEN SnSpawnFood([u EXCEPT !.poison_penalty = 1])
                               ELSE IF SnStarves(s.poison_penalty, Len(grown))
                               THEN {[u EXCEPT !.game_over = TRUE]}
                               ELSE SnSpawnFood(
                                      [u EXCEPT !.snake = SnShrunk(grown, s.poison_penalty),
                                                !.poison_penalty = SnDoubled(@)])

\* update, lines 185-187: n passes of the while loop.
RECURSIVE SnSteps(_, _)
SnSteps(s, n) ==
    IF n = 0 THEN {s}
    ELSE UNION {SnSteps(u, n - 1) : u \in SnStepOnce(s)}

\* update, line 190: now >= despawn_at.
SnDue(f, now) == f.type = "poison" /\ now >= f.despawn_at

\* update, lines 189-190
SnPurge(s) ==
    [s EXCEPT !.foods = SelectSeq(@, LAMBDA f : ~SnDue(f, s.now)),
              !.expired = {f \in {s.foods[i] : i \in 1 .. Len(s.foods)} : SnDue(f, s.now)}]

\* update, lines 191-193
RECURSIVE SnDrain(_)
SnDrain(s) ==
    IF s.spawn_queue # <<>> /\ Head(s.spawn_queue).due_at <= s.now
    THEN UNION {SnDrain(u) :
                  u \in SnSpawnFood([s EXCEPT !.spawn_queue = Tail(@),
                                              !.fired = @ \cup {Head(s.spawn_queue)}])}
    ELSE {s}

\* _reset
SnFresh(ratio) ==
    LET mid == SnRows \div 2
    IN  SnSpawnFood([apple_ratio |-> ratio,
                     snake |-> <<<<mid, mid - 2>>, <<mid, mid - 1>>, <<mid, mid>>>>,
                     direction |-> <<0, 1>>, next_direction |-> <<0, 1>>,
                     poison_penalty |-> 1, game_over |-> FALSE,
                     foods |-> <<>>, spawn_queue |-> <<>>,
                     spawned |-> 0, nsteps |-> 0, now |-> 0, played |-> 0,
                     expired |-> {}, fired |-> {}])

\* __init__ with the apple_ratio of a difficulty.
SnInit ==
    /\ sn_apple_ratio \in SnRatios
    /\ sn_timer = 0
    /\ sn_now = 0
    /\ sn_played = 0
    /\ \E s \in SnFresh(sn_apple_ratio) :
          /\ sn_snake = s.snake
          /\ sn_direction = s.direction
          /\ sn_next_direction = s.next_direction
          /\ sn_poison_penalty = s.poison_penalty
          /\ sn_game_over = s.game_over
          /\ sn_foods = s.foods
          /\ sn_spawn_queue = s.spawn_queue
          /\ sn_spawned = s.spawned
          /\ sn_nsteps = s.nsteps
          /\ sn_expired = s.expired
          /\ sn_fired = s.fired

\* handle_event for KEYDOWN with a key of dirs, new its direction.
SnKey(new) ==
    IF ~sn_game_over /\ SnValidTurn(sn_direction, new)
    THEN /\ sn_next_direction' = new
         /\ UNCHANGED <<sn_apple_ratio, sn_snake, sn_direction, sn_poison_penalty,
                        sn_game_over, sn_foods, sn_spawn_queue, sn_spawned,
                        sn_nsteps, sn_timer, sn_now, sn_played, sn_expired,
                        sn_fired>>
    ELSE UNCHANGED sn_vars

\* update(dt), called dt after the call before it.
SnUpdate(dt) ==
    IF sn_game_over THEN UNCHANGED sn_vars
    ELSE LET t == sn_timer + dt
             s == [SnState EXCEPT !.now = @ + dt, !.played = @ + dt]
         IN  /\ sn_timer' = t % step_time
             /\ sn_now' = s.now
             /\ sn_played' = s.played
             /\ \E u \in SnSteps(s, t \div step_time) :
                   \E v \in SnDrain(SnPurge(u)) :
                      /\ v.nsteps <= SnMaxSteps
                      /\ v.spawned <= SnMaxSpawns
                      /\ SnStore(v)
             /\ UNCHANGED sn_apple_ratio

\* handle_event for a left click on the Restart button.
SnRestartClick ==
    IF sn_game_over
    THEN /\ \E s \in SnFresh(sn_apple_ratio) : SnStore(s)
         /\ sn_timer' = 0
         /\ sn_now' = 0
         /\ sn_played' = 0
         /\ UNCHANGED sn_apple_ratio
    ELSE UNCHANGED sn_vars

\* The frame driver stops for d: no method of the scene runs and
\* time.time() is d later at the next call.
SnWait(d) ==
    /\ sn_now - sn_played + d <= SnMaxLag
    /\ sn_now' = sn_now + d
    /\ UNCHANGED <<sn_apple_ratio, sn_game, sn_timer, sn_played, sn_expired,
                   sn_fired>>

\* An update that ran _step once, and a Restart.
SnStepped == sn_nsteps' = sn_nsteps + 1

SnRestarted == sn_game_over /\ ~sn_game_over'

SnOpposite(d) == <<-d[1], -d[2]>>

\* C23: a direction key only sets the pending direction; the heading changes
\* only at a step (or is set anew by Restart); a step takes the pending
\* direction as its heading, and that is never the opposite of the heading
\* of the step before it (of the first heading, for the first step of a game).
C23_NoReversalBetweenSteps ==
    [][/\ (sn_direction' # sn_direction => SnStepped \/ SnRestarted)
       /\ (SnStepped => /\ sn_direction' = sn_next_direction
                         /\ sn_direction' # SnOpposite(sn_direction))
       /\ (sn_next_direction' # sn_next_direction /\ ~SnRestarted
             => /\ sn_next_direction' \in SnDirs
                /\ UNCHANGED <<sn_apple_ratio, sn_snake, sn_direction,
                               sn_poison_penalty, sn_game_over, sn_foods,
                               sn_spawn_queue, sn_timer>>)]_vars

\* A game in which the heading was turned twice and came to point against
\* the first heading.
C23_Witness ==
    /\ sn_nsteps >= 3 /\ sn_direction = <<0, -1>> /\ ~sn_game_over

\* Every cell of the body is on the board and no cell is in it twice.
SnBodyOk(snake) ==
    /\ \A i \in 1 .. Len(snake) :
          /\ snake[i][1] >= 0 /\ snake[i][1] < SnRows
          /\ snake[i][2] >= 0 /\ snake[i][2] < SnRows
    /\ \A i, j \in 1 .. Len(snake) : snake[i] = snake[j] => i = j

\* The cell one move in direction d from the head of snake.
SnAhead(snake, d) ==
    <<snake[Len(snake)][1] + d[1], snake[Len(snake)][2] + d[2]>>

\* The cell c is off the board or in the body.
SnBlocked(snake, c) ==
    \/ c[1] < 0 \/ c[1] >= SnRows \/ c[2] < 0 \/ c[2] >= SnRows
    \/ \E i \in 1 .. Len(snake) : snake[i] = c

\* C24: in every reachable state the cells of the body are on the board and
\* pairwise distinct; a step whose new head is off the board or in the body
\* sets game over and leaves the body as it was.
C24_BodyOnBoardAndSimple ==
    /\ SnBodyOk(sn_snake)
    /\ [][/\ SnBodyOk(sn_snake')
           /\ (SnStepped /\ SnBlocked(sn_snake, SnAhead(sn_snake, sn_next_direction))
                 => sn_game_over' /\ sn_snake' = sn_snake)]_vars

\* A game lost by running into the body.
C24_Witness ==
    /\ sn_game_over /\ Len(sn_snake) >= 4
    /\ \E i \in 1 .. Len(sn_snake) : sn_snake[i] = SnAhead(sn_snake, sn_direction)

\* The types of the items of foods on cell c.
SnTypesAt(foods, c) == {foods[i].type : i \in {k \in 1 .. Len(foods) : foods[k].pos = c}}

\* A step whose new head is a free cell holding an item of type ty.
SnStepOnto(ty) ==
    /\ SnStepped
    /\ ~SnBlocked(sn_snake, SnAhead(sn_snake, sn_next_direction))
    /\ SnTypesAt(sn_foods, SnAhead(sn_snake, sn_next_direction)) = {ty}

\* C25: when the new head lands on a harmful item, with p the penalty
\* counter and L the length of the body with the new head, the game ends if
\* p >= L; otherwise the game goes on, the p oldest segments are removed,
\* the counter becomes 2p and the body is not empty.
C25_HarmfulHitShrinksOrEnds ==
    [][SnStepOnto("poison")
        => LET p     == sn_poison_penalty
               grown == Append(sn_snake, SnAhead(sn_snake, sn_next_direction))
               L     == Len(grown)
           IN  IF p >= L THEN sn_game_over'
               ELSE /\ ~sn_game_over'
                    /\ Len(sn_snake') = L - p
                    /\ \A i \in 1 .. L - p : sn_snake'[i] = grown[i + p]
                    /\ sn_poison_penalty' = 2 * p
                    /\ sn_snake' # <<>>]_vars

\* A game lost to the third harmful item in a row after a benign one: the
\* counter is 4 and the body with its new head has 4 cells, the case p = L.
C25_Witness ==
    /\ sn_game_over /\ sn_poison_penalty = 4 /\ Len(sn_snake) = 4
    /\ sn_spawned = 4 /\ sn_nsteps = 4

\* A step whose new head is a free cell holding no item.
SnStepOntoNothing ==
    /\ SnStepped
    /\ ~SnBlocked(sn_snake, SnAhead(sn_snake, sn_next_direction))
    /\ SnTypesAt(sn_foods, SnAhead(sn_snake, sn_next_direction)) = {}

\* C26: a step onto a benign item makes the body one cell longer, the new
\* head added and no cell removed, and sets the penalty counter to 1; a step
\* onto no item moves the body and keeps its length.
C26_BenignHitGrowsByOne ==
    [][LET grown == Append(sn_snake, SnAhead(sn_snake, sn_next_direction))
       IN  /\ (SnStepOnto("apple")
                 => /\ Len(sn_snake') = Len(sn_snake) + 1
                    /\ sn_snake' = grown
                    /\ sn_poison_penalty' = 1
                    /\ ~sn_game_over')
           /\ (SnStepOntoNothing
                 => /\ Len(sn_snake') = Len(sn_snake)
                    /\ \A i \in 1 .. Len(sn_snake) : sn_snake'[i] = grown[i + 1]
                    /\ ~sn_game_over')]_vars

\* A body that two benign items made 5 cells long.
C26_Witness == Len(sn_snake) = 5 /\ sn_nsteps >= 3 /\ ~sn_game_over

\* n is a power of two.
SnPowerOfTwo(n) == \E k \in 0 .. SnMaxSteps : n = 2 ^ k

\* C27: the penalty counter is a power of two at all times; it changes only
\* in a step onto an item or at Restart; it doubles in a step onto a harmful
\* item that is survived and stays in one that is not; it is 1 after a step
\* onto a benign item and after Restart.
C27_PenaltyDoublesOrResets ==
    /\ SnPowerOfTwo(sn_poison_penalty)
    /\ [][LET p == sn_poison_penalty
               L == Len(sn_snake) + 1
           IN  /\ SnPowerOfTwo(sn_poison_penalty')
               /\ (sn_poison_penalty' # p
                     => SnRestarted \/ SnStepOnto("apple") \/ SnStepOnto("poison"))
               /\ (SnStepOnto("poison")
                     => sn_poison_penalty' = IF p < L THEN 2 * p ELSE p)
               /\ (SnStepOnto("apple") \/ SnRestarted => sn_poison_penalty' = 1)]_vars

\* Two harmful items and then a benign one, with no extra spawn yet: the
\* counter went 1, 2, 4 and is 1 again.
C27_Witness ==
    /\ sn_poison_penalty = 1 /\ Len(sn_snake) = 3 /\ sn_spawned = 4
    /\ sn_nsteps = 3 /\ sn_now < POISON_EXTRA_SPAWN /\ ~sn_game_over

\* The items of a list of items.
SnItemsOf(foods) == {foods[i] : i \in 1 .. Len(foods)}

\* An update in which _spawn_food ran once, with the board at the cap, and
\* in which no item was eaten and none expired.
SnSpawnAtCap ==
    /\ ~sn_game_over
    /\ sn_spawned' = sn_spawned + 1
    /\ Len(sn_foods) = MAX_ITEMS_ON_BOARD
    /\ sn_expired' = {}
    /\ ~SnStepOnto("apple") /\ ~SnStepOnto("poison")

\* C28: there are never more than MAX_ITEMS_ON_BOARD items on the board;
\* a spawn with that many items present removes the item spawned first among
\* them, keeps the others and adds the new item.
C28_FoodCapEvictsOldest ==
    /\ Len(sn_foods) <= MAX_ITEMS_ON_BOARD
    /\ [][/\ Len(sn_foods') <= MAX_ITEMS_ON_BOARD
           /\ (SnSpawnAtCap
                 => LET oldest == CHOOSE f \in SnItemsOf(sn_foods) :
                                     \A g \in SnItemsOf(sn_foods) : f.id <= g.id
                    IN  /\ Len(sn_foods') = MAX_ITEMS_ON_BOARD
                        /\ {f \in SnItemsOf(sn_foods') : f.id <= sn_spawned}
                              = SnItemsOf(sn_foods) \ {oldest}
                        /\ \E f \in SnItemsOf(sn_foods') : f.id = sn_spawned')]_vars

\* The first item of the game was removed at the cap, neither eaten nor
\* expired: the second and the third are on the board.
C28_Witness ==
    /\ Len(sn_foods) = MAX_ITEMS_ON_BOARD /\ sn_spawned = MAX_ITEMS_ON_BOARD + 1
    /\ \A f \in SnItemsOf(sn_foods) : f.id > 1
    /\ sn_poison_penalty = 1 /\ Len(sn_snake) = 3 /\ sn_nsteps = 1
    /\ sn_expired = {} /\ sn_fired # {}

\* C29: the despawn of a harmful item and the extra spawn advance by the dt
\* given to update only: an item that update removes as expired has had its
\* lifetime in dt, and an extra spawn that update runs has had its delay in
\* dt, however long the frame driver had stopped in between.
C29_TimersAdvanceByDtOnly ==
    /\ \A f \in sn_expired : sn_played >= f.played_at
    /\ \A q \in sn_fired : sn_played >= q.played_at

\* C38: while the game is not over, no item lies on a cell of the body and
\* no two items lie on one cell.
C38_FoodOffBodyAndApart ==
    sn_game_over = FALSE =>
        /\ \A i \in 1 .. Len(sn_foods) : sn_foods[i].pos \notin SnCells(sn_snake)
        /\ \A i, j \in 1 .. Len(sn_foods) :
              sn_foods[i].pos = sn_foods[j].pos => i = j

\* A game that goes on after the snake has eaten and changed its length,
\* with as many items on the board as the board takes.
C38_Witness ==
    /\ sn_game_over = FALSE
    /\ Len(sn_foods) = MAX_ITEMS_ON_BOARD
    /\ Len(sn_snake) # 3
    /\ sn_nsteps >= 2
    /\ sn_spawned >= 3

(***************************************************************************)
(* WordIt                                                                  *)
(***************************************************************************)

WORD_LEN == 5

\* The number of guesses of a game (6 in the source).
MAX_TRIES == 3

\* The words _load_words returns and the words the player types: strings as
\* sequences of letters.
WiWords ==
    {<<"A", "B", "C", "D", "E">>, <<"A", "E", "I", "O", "U">>,
     <<"E", "B", "C", "D", "E">>}

WiLetters == UNION {{w[i] : i \in 1 .. WORD_LEN} : w \in WiWords}

\* score_guess, the second loop, with a fault: the answer letter that makes
\* g[i] present is not used up.
RECURSIVE WiSecondPassKeeps(_, _, _, _, _)
WiSecondPassKeeps(ans, g, i, res, used) ==
    IF i > WORD_LEN THEN res
    ELSE IF res[i] = "correct" THEN WiSecondPassKeeps(ans, g, i + 1, res, used)
    ELSE IF \E j \in 1 .. WORD_LEN : ~used[j] /\ g[i] = ans[j]
         THEN WiSecondPassKeeps(ans, g, i + 1, [res EXCEPT ![i] = "present"], used)
         ELSE WiSecondPassKeeps(ans, g, i + 1, res, used)

\* score_guess, the second loop from position i on: the first answer letter
\* not used yet that equals g[i] makes g[i] present and is used up.
RECURSIVE WiSecondPass(_, _, _, _, _)
WiSecondPass(ans, g, i, res, used) ==
    IF i > WORD_LEN THEN res
    ELSE IF res[i] = "correct" THEN WiSecondPass(ans, g, i + 1, res, used)
    ELSE LET js == {j \in 1 .. WORD_LEN : ~used[j] /\ g[i] = ans[j]}
         IN  IF js = {} THEN WiSecondPass(ans, g, i + 1, res, used)
             ELSE WiSecondPass(ans, g, i + 1, [res EXCEPT ![i] = "present"],
                               [used EXCEPT ![CHOOSE j \in js : \A k \in js : j <= k] = TRUE])

\* score_guess with a fault: the second loop is left out.
score_exact_only(ans, g) ==
    [i \in 1 .. WORD_LEN |-> IF g[i] = ans[i] THEN "correct" ELSE "absent"]

\* score_guess
score_guess(ans, g) ==
    WiSecondPass(ans, g, 1,
                 [i \in 1 .. WORD_LEN |-> IF g[i] = ans[i] THEN "correct" ELSE "absent"],
                 [i \in 1 .. WORD_LEN |-> g[i] = ans[i]])

\* _validate_hard, lines 123-129, for one scored letter: greens maps a
\* position to its letter ("" for none), yellows and greys are sets.
WiMarked(m, idx, ch, code) ==
    IF code = "correct" THEN [m EXCEPT !.greens[idx] = ch]
    ELSE IF code = "present" THEN [m EXCEPT !.yellows = @ \cup {ch}]
    ELSE IF /\ \A i \in 1 .. WORD_LEN : m.greens[i] # ch
            /\ ch \notin m.yellows
         THEN [m EXCEPT !.greys = @ \cup {ch}]
         ELSE m

\* _validate_hard, lines 121-129: the loops over the guesses and their
\* letters, from guess k and position idx on.
RECURSIVE WiMarks(_, _, _, _, _)
WiMarks(guesses, results, k, idx, m) ==
    IF k > Len(guesses) THEN m
    ELSE IF idx > WORD_LEN THEN WiMarks(guesses, results, k + 1, 1, m)
    ELSE WiMarks(guesses, results, k, idx + 1,
                 WiMarked(m, idx, guesses[k][idx], results[k][idx]))

\* _validate_hard: the notice of the rule the guess breaks, "" for none.
WiValidateHard(guesses, results, guess) ==
    LET m == WiMarks(guesses, results, 1, 1,
                     [greens |-> [i \in 1 .. WORD_LEN |-> ""],
                      yellows |-> {}, greys |-> {}])
        letters == {guess[i] : i \in 1 .. WORD_LEN}
    IN  IF \E i \in 1 .. WORD_LEN : m.greens[i] # "" /\ guess[i] # m.greens[i]
        THEN "Keep green letters in place"
        ELSE IF ~(m.yellows \subseteq letters) THEN "Include all yellow letters"
        ELSE IF letters \cap m.greys # {} THEN "Don't reuse grey letters"
        ELSE ""

\* __init__ for a mode
WiInit ==
    /\ wi_hard_mode \in BOOLEAN
    /\ wi_answer \in WiWords
    /\ wi_guesses = <<>>
    /\ wi_results = <<>>
    /\ wi_current = <<>>
    /\ wi_game_over = FALSE
    /\ wi_win = FALSE
    /\ wi_notice = ""

\* The words the player is followed for: those that go on to a word of
\* WiWords.
WiTyped(cur) == \E w \in WiWords : Len(cur) <= WORD_LEN /\ SubSeq(w, 1, Len(cur)) = cur

\* handle_event for KEYDOWN with a letter, or USEREVENT with a letter of the
\* on-screen keyboard.
WiLetter(ch) ==
    /\ WiTyped(Append(wi_current, ch))
    /\ IF ~wi_game_over /\ Len(wi_current) < WORD_LEN
       THEN /\ wi_current' = Append(wi_current, ch)
            /\ UNCHANGED <<wi_hard_mode, wi_answer, wi_guesses, wi_results,
                           wi_game_over, wi_win, wi_notice>>
       ELSE UNCHANGED wi_vars

\* handle_event for K_BACKSPACE or a click on DELETE.
WiBackspace ==
    IF ~wi_game_over
    THEN /\ wi_current' = SubSeq(wi_current, 1, Len(wi_current) - 1)
         /\ UNCHANGED <<wi_hard_mode, wi_answer, wi_guesses, wi_results,
                        wi_game_over, wi_win, wi_notice>>
    ELSE UNCHANGED wi_vars

\* handle_event for K_RETURN or a click on ENTER: _submit.
WiEnter ==
    IF wi_game_over \/ Len(wi_current) # WORD_LEN THEN UNCHANGED wi_vars
    ELSE LET g   == wi_current
             why == IF wi_hard_mode
                    THEN WiValidateHard(wi_guesses, wi_results, g) ELSE ""
         IN  IF why # ""
             THEN /\ wi_notice' = why
                  /\ wi_current' = <<>>
                  /\ UNCHANGED <<wi_hard_mode, wi_answer, wi_guesses, wi_results,
                                 wi_game_over, wi_win>>
             ELSE /\ wi_guesses' = Append(wi_guesses, g)
                  /\ wi_results' = Append(wi_results, score_guess(wi_answer, g))
                  /\ wi_current' = <<>>
                  /\ wi_win' = (g = wi_answer)
                  /\ wi_game_over' = (g = wi_answer \/ Len(wi_guesses) + 1 >= MAX_TRIES)
                  /\ UNCHANGED <<wi_hard_mode, wi_answer, wi_notice>>

\* handle_event for a click on Restart or K_r after the game: _reset.
WiRestart ==
    IF wi_game_over
    THEN /\ wi_answer' \in WiWords
         /\ wi_guesses' = <<>>
         /\ wi_results' = <<>>
         /\ wi_current' = <<>>
         /\ wi_game_over' = FALSE
         /\ wi_win' = FALSE
         /\ wi_notice' = ""
         /\ UNCHANGED wi_hard_mode
    ELSE UNCHANGED wi_vars

\* update, once the notice is more than 2 seconds old.
WiUpdate ==
    /\ wi_notice' = ""
    /\ UNCHANGED <<wi_hard_mode, wi_answer, wi_guesses, wi_results, wi_current,
                   wi_game_over, wi_win>>

\* The letters of the two words of the example.
WiABCDE == <<"A", "B", "C", "D", "E">>

WiAEIOU == <<"A", "E", "I", "O", "U">>

\* The rows of the grid that hold the guess g, when the answer is ans.
WiRowsOf(ans, g) ==
    {k \in 1 .. Len(wi_guesses) : wi_answer = ans /\ wi_guesses[k] = g}

\* C30 as stated: score_guess("ABCDE", "AEIOU") is
\* [correct, absent, absent, absent, present].
C30_ExampleScoreAsStated ==
    \A k \in WiRowsOf(WiABCDE, WiAEIOU) :
        wi_results[k] = <<"correct", "absent", "absent", "absent", "present">>

\* C30: score_guess("ABCDE", "AEIOU") is
\* [correct, present, absent, absent, absent]: A is in its place, E is in the
\* answer at another place, I, O and U are not in the answer.
C30_ExampleScore ==
    \A k \in WiRowsOf(WiABCDE, WiAEIOU) :
        wi_results[k] = <<"correct", "present", "absent", "absent", "absent">>

\* The guess AEIOU was scored against the answer ABCDE.
C30_Witness == WiRowsOf(WiABCDE, WiAEIOU) # {}

\* The letters and the words the scoring is followed for.
WiAlphabet == {"A", "B", "C"}

WiAllWords == [1 .. WORD_LEN -> WiAlphabet]

\* The scene at the moment the player has typed a whole word: __init__ and
\* WORD_LEN letters.
WiTypedInit ==
    /\ wi_hard_mode \in BOOLEAN
    /\ wi_answer \in WiAllWords
    /\ wi_guesses = <<>>
    /\ wi_results = <<>>
    /\ wi_current \in WiAllWords
    /\ wi_game_over = FALSE
    /\ wi_win = FALSE
    /\ wi_notice = ""

\* The reference scoring, position by position: the exact matches are
\* correct; another position is present when the guess has, to its left and
\* outside the exact matches, fewer copies of its letter than the answer has
\* outside the exact matches.
WiReference(ans, g) ==
    LET exact == {j \in 1 .. WORD_LEN : g[j] = ans[j]}
    IN  [i \in 1 .. WORD_LEN |->
            IF i \in exact THEN "correct"
            ELSE LET left   == Cardinality({j \in (1 .. WORD_LEN) \ exact : ans[j] = g[i]})
                     before == Cardinality({j \in (1 .. i - 1) \ exact : g[j] = g[i]})
                 IN  IF before < left THEN "present" ELSE "absent"]

\* The positions of the guess g that hold ch and are scored correct or
\* present in sc.
WiCredited(g, sc, ch) ==
    {i \in 1 .. WORD_LEN : g[i] = ch /\ sc[i] \in {"correct", "present"}}

\* C31: every scored row equals the reference two-pass scoring; for each
\* letter the positions scored correct or present are no more than its
\* occurrences in the answer; and all positions are correct exactly when the
\* guess is the answer.
C31_ScoreIsReference ==
    \A k \in 1 .. Len(wi_guesses) :
        LET g  == wi_guesses[k]
            sc == wi_results[k]
        IN  /\ sc = WiReference(wi_answer, g)
            /\ \A ch \in WiAlphabet :
                   Cardinality(WiCredited(g, sc, ch))
                       <= Cardinality({j \in 1 .. WORD_LEN : wi_answer[j] = ch})
            /\ (\A i \in 1 .. WORD_LEN : sc[i] = "correct") <=> g = wi_answer

\* A scored guess that holds one letter three times: once in place, once
\* present and once absent.
C31_Witness ==
    /\ Len(wi_guesses) = 1
    /\ \E i, j, l \in 1 .. WORD_LEN :
           /\ wi_guesses[1][i] = wi_guesses[1][j]
           /\ wi_guesses[1][j] = wi_guesses[1][l]
           /\ wi_results[1][i] = "correct"
           /\ wi_results[1][j] = "present"
           /\ wi_results[1][l] = "absent"

\* The step is a _submit that turns the typed word down with the notice why.
WiRejected(why) ==
    /\ ~wi_game_over
    /\ Len(wi_current) = WORD_LEN
    /\ wi_current' = <<>>
    /\ wi_guesses' = wi_guesses
    /\ wi_notice' = why

\* The letter ch has the score code at some position of some row of the grid.
WiScored(ch, code) ==
    \E k \in 1 .. Len(wi_guesses) : \E i \in 1 .. WORD_LEN :
        wi_guesses[k][i] = ch /\ wi_results[k][i] = code

\* C32: a guess is turned down for a grey letter only if it holds a letter
\* that was scored absent and was never scored correct or present in the
\* rows of the grid, whatever the order of the scores.
C32_GreyOnlyIfNeverCredited ==
    [][WiRejected("Don't reuse grey letters")
          => \E i \in 1 .. WORD_LEN :
                 /\ WiScored(wi_current[i], "absent")
                 /\ ~WiScored(wi_current[i], "correct")
                 /\ ~WiScored(wi_current[i], "present")]_vars

\* C39: in hard mode, while the game goes on, the answer passes
\* _validate_hard against the rows of the grid.
C39_AnswerPassesHardMode ==
    (wi_hard_mode = TRUE /\ wi_game_over = FALSE)
        => WiValidateHard(wi_guesses, wi_results, wi_answer) = ""

(***************************************************************************)
(* Hangman                                                                 *)
(***************************************************************************)

\* MAX_MISTAKES, scaled down from 7.
MAX_MISTAKES == 3

\* The terms of the word list, as sequences of characters.
HmWords == {<<"A", "B">>, <<"B", " ", "B">>, <<"C", "A", "B">>}

\* The letters of the on-screen keyboard that are followed.
HmLetters == {"A", "B", "C", "D", "E"}

\* str.upper on the characters a key press can bring.
HmUpper(ch) ==
    CASE ch = "a" -> "A" [] ch = "b" -> "B" [] ch = "c" -> "C"
      [] ch = "d" -> "D" [] ch = "e" -> "E" [] OTHER -> ch

\* ev.unicode of the key presses that are followed: the letters in lower and
\* in upper case.
HmTyped == HmLetters \cup {"a", "b", "c", "d", "e"}

\* __init__ for a term of the list.
HmFresh(word) ==
    /\ hm_word' = word
    /\ hm_revealed' = [i \in 1 .. Len(word) |-> word[i] = " "]
    /\ hm_guessed' = {}
    /\ hm_mistakes' = 0
    /\ hm_game_over' = FALSE
    /\ hm_win' = FALSE

HmInit ==
    /\ hm_word \in HmWords
    /\ hm_revealed = [i \in 1 .. Len(hm_word) |-> hm_word[i] = " "]
    /\ hm_guessed = {}
    /\ hm_mistakes = 0
    /\ hm_game_over = FALSE
    /\ hm_win = FALSE

\* _guess, line 142: the mistakes, n in number, end the game.
HmHanged(n) == n >= MAX_MISTAKES

\* _guess(ch)
HmGuess(ch) ==
    IF hm_game_over \/ ch \in hm_guessed THEN UNCHANGED hm_vars
    ELSE LET up == HmUpper(ch)
         IN  IF up \notin HmLetters           \* not ch.isalpha()
             THEN UNCHANGED hm_vars
             ELSE /\ hm_guessed' = hm_guessed \cup {up}
                  /\ IF \E i \in 1 .. Len(hm_word) : hm_word[i] = up
                     THEN LET revealed == [i \in 1 .. Len(hm_word) |->
                                              hm_revealed[i] \/ hm_word[i] = up]
                              done == \A i \in 1 .. Len(hm_word) : revealed[i]
                          IN  /\ hm_revealed' = revealed
                              /\ hm_win' = IF done THEN TRUE ELSE hm_win
                              /\ hm_game_over' = IF done THEN TRUE ELSE hm_game_over
                              /\ UNCHANGED hm_mistakes
                     ELSE /\ hm_mistakes' = hm_mistakes + 1
                          /\ hm_game_over' = IF HmHanged(hm_mistakes + 1)
                                             THEN TRUE ELSE hm_game_over
                          /\ UNCHANGED <<hm_revealed, hm_win>>
                  /\ UNCHANGED hm_word

\* handle_event for KEYDOWN with a letter as ev.unicode.
HmKeyDown(ch) == HmGuess(ch)

\* handle_event for USEREVENT with the letter of a key of the on-screen
\* keyboard.
HmKeyboardClick(ch) == HmGuess(ch)

\* handle_event for a click on Restart or K_r after the game: _reset.
HmRestart ==
    IF hm_game_over THEN \E word \in HmWords : HmFresh(word)
    ELSE UNCHANGED hm_vars

\* The letters guessed that the word does not hold.
HmMisses == {ch \in hm_guessed : \A i \in 1 .. Len(hm_word) : hm_word[i] # ch}

\* C40: a letter guessed before is ignored when it is guessed again, typed in
\* either case or clicked: the mistakes are never more than the distinct
\* letters guessed that the word does not hold, and never more than
\* MAX_MISTAKES.
C40_OneMistakePerLetter ==
    /\ hm_mistakes <= Cardinality(HmMisses)
    /\ hm_mistakes <= MAX_MISTAKES

(***************************************************************************)
(* The main loop                                                           *)
(***************************************************************************)

\* The names the scenes register under.
MainGames == {"Minesweeper", "BrickLayer", "Pipeline", "Snake", "WordIt", "Hangman"}

\* The main loop is followed for at most this many launches from the menu.
MainMaxLaunches == 1

\* The main loop has launched the scene of the game name, which is current,
\* and no Escape has been dispatched to it.
MainOn(name) == current = name /\ main_escaped = "" /\ main_launched = 1

\* handle_event of each scene for KEYDOWN K_ESCAPE: the value returned, after
\* the game and during it.  No branch that returns it writes a field.
\* MsEscape with a fault: after the game only the buttons are looked at and
\* nothing is returned for a key.
MsEscapeNoneAfterGame == IF ms_game_over THEN None ELSE "menu"

MsEscape == IF ms_game_over THEN "menu" ELSE "menu"

BlEscape == IF bl_game_over THEN "menu" ELSE "menu"

PlEscape == "menu"

SnEscape == IF sn_game_over THEN "menu" ELSE "menu"

WiEscape == IF wi_game_over THEN "menu" ELSE "menu"

HmEscape == IF hm_game_over THEN "menu" ELSE "menu"

\* result = current.handle_event(ev) for ev a KEYDOWN of K_ESCAPE.
MainEscapeResult ==
    CASE current = "Minesweeper" -> MsEscape
      [] current = "BrickLayer"  -> BlEscape
      [] current = "Pipeline"    -> PlEscape
      [] current = "Snake"       -> SnEscape
      [] current = "WordIt"      -> WiEscape
      [] current = "Hangman"     -> HmEscape

\* main, lines 48 and 64-66, for an Escape key-down while a game scene is
\* current (a Pipeline scene takes events once its __init__ has returned).
MainEscape ==
    /\ current \in MainGames
    /\ current = "Pipeline" => pl_pos = "play"
    /\ main_escaped' = current
    /\ current' = IF MainEscapeResult = "menu" THEN "menu" ELSE current
    /\ UNCHANGED <<ms_vars, bl_vars, pl_vars, sn_vars, wi_vars, hm_vars, main_launched>>

\* The constructors launch_game calls.
MsLaunch ==
    \E cfg \in MsConfigs :
        /\ ms_rows' = cfg.rows
        /\ ms_cols' = cfg.cols
        /\ ms_mine_count' = cfg.mine_count
        /\ ms_first_click' = TRUE
        /\ ms_game_over' = FALSE
        /\ ms_win' = FALSE
        /\ ms_exploded' = None
        /\ ms_cells' = [p \in (0 .. cfg.rows - 1) \X (0 .. cfg.cols - 1) |-> MsFreshCell]

BlLaunch ==
    /\ \E t \in BlTypes : BlStore(BlFresh(t))
    /\ bl_last_tap' = 0
    /\ bl_drops' = 0

PlLaunch ==
    /\ \E cfg \in PlConfigs :
          /\ pl_rows' = cfg.rows
          /\ pl_cols' = cfg.cols
          /\ pl_pair_n' = cfg.pair_count
          /\ pl_min_seg' = cfg.min_seg
          /\ pl_grid' = [rc \in (0 .. cfg.rows - 1) \X (0 .. cfg.cols - 1) |-> PlEmptyCell]
    /\ pl_pos' = "generate"
    /\ pl_lengths' = <<>>
    /\ pl_attempts' = 0
    /\ pl_solution' = <<>>
    /\ pl_nodes' = <<>>
    /\ pl_paths_drawn' = <<>>
    /\ pl_completed' = <<>>
    /\ pl_active_col' = PlNoColour
    /\ pl_active_path' = <<>>
    /\ pl_dragging' = FALSE
    /\ pl_win' = FALSE

SnLaunch ==
    /\ \E ratio \in SnRatios :
          /\ sn_apple_ratio' = ratio
          /\ \E s \in SnFresh(ratio) : SnStore(s)
    /\ sn_timer' = 0
    /\ sn_now' = 0
    /\ sn_played' = 0

WiLaunch ==
    /\ wi_hard_mode' \in BOOLEAN
    /\ wi_answer' \in WiWords
    /\ wi_guesses' = <<>>
    /\ wi_results' = <<>>
    /\ wi_current' = <<>>
    /\ wi_game_over' = FALSE
    /\ wi_win' = FALSE
    /\ wi_notice' = ""

HmLaunch == \E word \in HmWords : HmFresh(word)

\* C33: an Escape key-down dispatched to the scene of any game, during the
\* game or after it, makes the menu the current scene and changes no field
\* of the scene.
C33_EscapeReturnsToMenu ==
    /\ [](main_escaped # "" => current = "menu")
    /\ [][(main_escaped = "" /\ main_escaped' # "")
             => /\ current \in MainGames
                /\ current' = "menu"
                /\ UNCHANGED <<ms_vars, bl_vars, pl_vars, sn_vars, wi_vars, hm_vars>>]_vars

\* The menu is current after an Escape in a lost game of Minesweeper, whose
\* fields are as the game left them.
C33_Witness ==
    /\ current = "menu"
    /\ main_escaped = "Minesweeper"
    /\ ms_game_over = TRUE
    /\ ms_win = FALSE
    /\ ms_exploded # None

(***************************************************************************)
(* Specifications                                                          *)
(***************************************************************************)

\* No scene of the kind is current: its fields do not exist.
MsAbsent ==
    /\ ms_rows = None /\ ms_cols = None /\ ms_mine_count = None
    /\ ms_cells = None /\ ms_first_click = None /\ ms_game_over = None
    /\ ms_win = None /\ ms_exploded = None

BlAbsent ==
    /\ bl_cells = None /\ bl_piece = None /\ bl_game_over = None
    /\ bl_lines = None /\ bl_score = None
    /\ bl_last_tap = None /\ bl_nlocks = None /\ bl_drops = None


PlAbsent ==
    /\ pl_rows = None /\ pl_cols = None /\ pl_pair_n = None /\ pl_min_seg = None
    /\ pl_pos = None /\ pl_lengths = None /\ pl_attempts = None
    /\ pl_solution = None /\ pl_nodes = None /\ pl_grid = None
    /\ pl_paths_drawn = None /\ pl_completed = None /\ pl_active_col = None
    /\ pl_active_path = None /\ pl_dragging = None /\ pl_win = None

SnAbsent ==
    /\ sn_apple_ratio = None /\ sn_snake = None /\ sn_direction = None
    /\ sn_next_direction = None /\ sn_poison_penalty = None /\ sn_timer = None
    /\ sn_game_over = None /\ sn_foods = None /\ sn_spawn_queue = None
    /\ sn_spawned = None /\ sn_nsteps = None /\ sn_expired = None
    /\ sn_fired = None /\ sn_now = None /\ sn_played = None

WiAbsent ==
    /\ wi_hard_mode = None /\ wi_answer = None /\ wi_guesses = None
    /\ wi_results = None /\ wi_current = None /\ wi_game_over = None
    /\ wi_win = None /\ wi_notice = None

HmAbsent ==
    /\ hm_word = None /\ hm_revealed = None /\ hm_guessed = None
    /\ hm_mistakes = None /\ hm_game_over = None /\ hm_win = None

MsInitial == MsInit /\ BlAbsent /\ PlAbsent /\ SnAbsent /\ WiAbsent /\ HmAbsent
             /\ MainOn("Minesweeper")

MsNext ==
    \/ \E p \in MsCellSet : MsLeftClick(p) /\ UNCHANGED ms_off
    \/ \E p \in MsCellSet : MsRightClick(p) /\ UNCHANGED ms_off
    \/ MsRestartClick /\ UNCHANGED ms_off
    \/ MsOtherEvent /\ UNCHANGED ms_off

SpecMS == MsInitial /\ [][MsNext]_vars

BlInitial == BlInit /\ MsAbsent /\ PlAbsent /\ SnAbsent /\ WiAbsent /\ HmAbsent
             /\ MainOn("BrickLayer")

PlInitial == PlInit /\ MsAbsent /\ BlAbsent /\ SnAbsent /\ WiAbsent /\ HmAbsent
             /\ MainOn("Pipeline")

PlNext ==
    \/ PlGenerate /\ UNCHANGED pl_off
    \/ \E rc \in PlCellSet : PlMouseDown(rc) /\ UNCHANGED pl_off
    \/ \E rc \in PlCellSet : PlMouseMotion(rc) /\ UNCHANGED pl_off
    \/ PlMouseUp /\ UNCHANGED pl_off
    \/ PlOtherEvent /\ UNCHANGED pl_off

SpecPL == PlInitial /\ [][PlNext]_vars

\* The construction of the scene alone: the generation loop keeps running
\* until it leaves by itself.
PlGenNext == PlGenerate /\ UNCHANGED pl_off

SpecPLGen == PlInitial /\ [][PlGenNext]_vars /\ WF_vars(PlGenNext)

\* The construction of the scene and the player who draws the generated
\* segments and does nothing else: each event of the player is taken in the
\* end.
PlSolveNext ==
    \/ PlGenerate /\ UNCHANGED pl_off
    \/ PlSolveDown /\ UNCHANGED pl_off
    \/ PlSolveMove /\ UNCHANGED pl_off
    \/ PlSolveUp /\ UNCHANGED pl_off

SpecPLSolve == PlInitial /\ [][PlSolveNext]_vars /\ WF_vars(PlSolveNext)

BlNext ==
    \/ \E dx \in {-1, 1} : BlFollowed /\ BlShift(dx) /\ UNCHANGED bl_off
    \/ BlFollowed /\ BlRotate /\ UNCHANGED bl_off
    \/ \E now \in BlTimes :
          BlFollowed /\ now >= bl_last_tap /\ BlDown(now) /\ UNCHANGED bl_off
    \/ \E n \in 1 .. BlMaxFalls : BlFollowed /\ BlUpdate(n) /\ UNCHANGED bl_off
    \/ BlRestartClick /\ UNCHANGED bl_off

SpecBL == BlInitial /\ [][BlNext]_vars

SnInitial == SnInit /\ MsAbsent /\ BlAbsent /\ PlAbsent /\ WiAbsent /\ HmAbsent
             /\ MainOn("Snake")

SnNext ==
    \/ \E new \in SnDirs : SnKey(new) /\ UNCHANGED sn_off
    \/ \E dt \in SnDts : SnUpdate(dt) /\ UNCHANGED sn_off
    \/ \E d \in SnWaits : SnWait(d) /\ UNCHANGED sn_off
    \/ SnRestartClick /\ UNCHANGED sn_off

SpecSN == SnInitial /\ [][SnNext]_vars

WiInitial == WiInit /\ MsAbsent /\ BlAbsent /\ PlAbsent /\ SnAbsent /\ HmAbsent
             /\ MainOn("WordIt")

WiNext ==
    \/ \E ch \in WiLetters : WiLetter(ch) /\ UNCHANGED wi_off
    \/ WiBackspace /\ UNCHANGED wi_off
    \/ WiEnter /\ UNCHANGED wi_off
    \/ WiRestart /\ UNCHANGED wi_off
    \/ WiUpdate /\ UNCHANGED wi_off

SpecWI == WiInitial /\ [][WiNext]_vars

WiTypedInitial == WiTypedInit /\ MsAbsent /\ BlAbsent /\ PlAbsent /\ SnAbsent /\ HmAbsent
                  /\ MainOn("WordIt")

WiScoreNext == WiEnter /\ UNCHANGED wi_off

SpecWIScore == WiTypedInitial /\ [][WiScoreNext]_vars

HmInitial == HmInit /\ MsAbsent /\ BlAbsent /\ PlAbsent /\ SnAbsent /\ WiAbsent
             /\ MainOn("Hangman")

HmNext ==
    \/ \E ch \in HmTyped : HmKeyDown(ch) /\ UNCHANGED hm_off
    \/ \E ch \in HmLetters : HmKeyboardClick(ch) /\ UNCHANGED hm_off
    \/ HmRestart /\ UNCHANGED hm_off

SpecHM == HmInitial /\ [][HmNext]_vars

\* The scene a launch replaces, or that was never built: every field None.
MsGone ==
    /\ ms_rows' = None /\ ms_cols' = None /\ ms_mine_count' = None
    /\ ms_cells' = None /\ ms_first_click' = None /\ ms_game_over' = None
    /\ ms_win' = None /\ ms_exploded' = None

BlGone ==
    /\ bl_cells' = None /\ bl_piece' = None /\ bl_game_over' = None
    /\ bl_lines' = None /\ bl_score' = None
    /\ bl_last_tap' = None /\ bl_nlocks' = None /\ bl_drops' = None

PlGone ==
    /\ pl_rows' = None /\ pl_cols' = None /\ pl_pair_n' = None /\ pl_min_seg' = None
    /\ pl_pos' = None /\ pl_lengths' = None /\ pl_attempts' = None
    /\ pl_solution' = None /\ pl_nodes' = None /\ pl_grid' = None
    /\ pl_paths_drawn' = None /\ pl_completed' = None /\ pl_active_col' = None
    /\ pl_active_path' = None /\ pl_dragging' = None /\ pl_win' = None

SnGone ==
    /\ sn_apple_ratio' = None /\ sn_snake' = None /\ sn_direction' = None
    /\ sn_next_direction' = None /\ sn_poison_penalty' = None /\ sn_timer' = None
    /\ sn_game_over' = None /\ sn_foods' = None /\ sn_spawn_queue' = None
    /\ sn_spawned' = None /\ sn_nsteps' = None /\ sn_expired' = None
    /\ sn_fired' = None /\ sn_now' = None /\ sn_played' = None

WiGone ==
    /\ wi_hard_mode' = None /\ wi_answer' = None /\ wi_guesses' = None
    /\ wi_results' = None /\ wi_current' = None /\ wi_game_over' = None
    /\ wi_win' = None /\ wi_notice' = None

HmGone ==
    /\ hm_word' = None /\ hm_revealed' = None /\ hm_guessed' = None
    /\ hm_mistakes' = None /\ hm_game_over' = None /\ hm_win' = None


\* main, lines 51-57: the menu returns ("play", ...) and launch_game builds
\* the scene of the game name, which becomes current.
MenuPlay(name) ==
    /\ current = "menu"
    /\ main_launched < MainMaxLaunches
    /\ main_launched' = main_launched + 1
    /\ current' = name
    /\ main_escaped' = ""
    /\ \/ name = "Minesweeper" /\ MsLaunch
          /\ BlGone /\ PlGone /\ SnGone /\ WiGone /\ HmGone
       \/ name = "BrickLayer" /\ BlLaunch
          /\ MsGone /\ PlGone /\ SnGone /\ WiGone /\ HmGone
       \/ name = "Pipeline" /\ PlLaunch
          /\ MsGone /\ BlGone /\ SnGone /\ WiGone /\ HmGone
       \/ name = "Snake" /\ SnLaunch
          /\ MsGone /\ BlGone /\ PlGone /\ WiGone /\ HmGone
       \/ name = "WordIt" /\ WiLaunch
          /\ MsGone /\ BlGone /\ PlGone /\ SnGone /\ HmGone
       \/ name = "Hangman" /\ HmLaunch
          /\ MsGone /\ BlGone /\ PlGone /\ SnGone /\ WiGone

MainInit ==
    /\ current = "menu"
    /\ main_escaped = ""
    /\ main_launched = 0
    /\ MsAbsent /\ BlAbsent /\ PlAbsent /\ SnAbsent /\ WiAbsent /\ HmAbsent

\* main, lines 39-66: one event of the loop.
MainNext ==
    \/ \E name \in MainGames : MenuPlay(name)
    \/ MainEscape
    \/ current = "Minesweeper" /\ MsNext
    \/ current = "BrickLayer" /\ BlNext
    \/ current = "Pipeline" /\ PlNext
    \/ current = "Snake" /\ SnNext
    \/ current = "WordIt" /\ WiNext
    \/ current = "Hangman" /\ HmNext

SpecMain == MainInit /\ [][MainNext]_vars

====
